---- MODULE Spec2Model ----
(***************************************************************************)
(* Point-of-sale front end: the order form (Order.vue), the return form    *)
(* (Return.vue) and the inventory form (Inventory.vue) against the remote  *)
(* record store.  Every awaited store call is two steps: the handler runs  *)
(* up to the call (its arguments are evaluated there), and the response    *)
(* step applies the call to the store and runs the handler up to its next  *)
(* await.  Between the two any other UI event or response may be handled.  *)
(*                                                                         *)
(* Numbers.  Money is counted in thousandths of a krona (mills).  A form   *)
(* field of TypeScript type `number | null` is a tuple: << >> is null,     *)
(* <<n>> the integer n, <<n, 5>> the non-integer n + 0.5.                  *)
(***************************************************************************)
EXTENDS Integers, Sequences, FiniteSets, TLC

\* ------------------------------------------------------------------ bounds
NClients == 2
MaxReturns == 2
MaxSearches == 1

Clients == 1 .. NClients

\* ----------------------------------------------------------------- numbers
Null == << >>

IsInteger(q) == Len(q) = 1

\* JavaScript truthiness of a number | null: null and 0 are falsy.
Truthy(q) == q # << >> /\ q # <<0>>

\* q > m and q < m for a non-null q and an integer m.
NumGT(q, m) == IF Len(q) = 2 THEN q[1] >= m ELSE q[1] > m

NumLT(q, m) == q[1] < m

NumAdd(q, d) == [q EXCEPT ![1] = @ + d]

\* q || d
NumOr(q, d) == IF Truthy(q) THEN q ELSE <<d>>

Abs(x) == IF x < 0 THEN -x ELSE x

\* +(x).toFixed(2) of an amount given in half-mills, as mills (a multiple of
\* 10).  An amount that lies exactly between two cents is rounded away from
\* zero; in the program such an amount is a binary double that lies on one
\* side or the other, and the price sets used below produce none.
ToFixed2Half(h) ==
    LET r == ((Abs(h) + 10) \div 20) * 10 IN IF h < 0 THEN -r ELSE r

ToFixed2(x) == ToFixed2Half(2 * x)

\* +(unitPrice * qty).toFixed(2) with qty = Number.isFinite(q) ? q : 0.
LineAmount(unitPrice, q) ==
    IF q = << >> THEN 0
    ELSE IF Len(q) = 2 THEN ToFixed2Half(unitPrice * (2 * q[1] + 1))
    ELSE ToFixed2(unitPrice * q[1])

RECURSIVE SeqSum(_)
SeqSum(s) == IF s = << >> THEN 0 ELSE Head(s) + SeqSum(Tail(s))

\* String.prototype.trim on the search inputs of the model.
Trim(s) ==
    CASE s = " " -> ""
      [] s = " o1" -> "o1"
      [] s = "o2 " -> "o2"
      [] OTHER -> s

\* ------------------------------------------------------------------- state
VARIABLES
    orders,        \* store: Order records, in creation order
    orderItems,    \* store: OrderItem records
    returns,       \* store: Return records
    returnItems,   \* store: ReturnItem records
    inventory,     \* store: Inventory rows
    now,           \* Date.now()
    ret,           \* Return.vue: the refs of each client's component
    search,        \* Return.vue: each client's searchOrder calls in flight
    sub,           \* Return.vue: each client's submitReturn call in flight
    ord,           \* Order.vue: the refs of each client's component
    osub,          \* Order.vue: each client's submitOrder call in flight
    invForm,       \* Inventory.vue: the refs of each client's component
    save,          \* Inventory.vue: each client's saveInventory call in flight
    barcode,       \* Product.vue: the text of the barcode field
    barcodeValidation,  \* Product.vue: the last result of isValidBarcode
    stats          \* Stats.vue: the refs of the component

storeVars == <<orders, orderItems, returns, returnItems, inventory, now>>

returnVars == <<ret, search, sub>>

orderVars == <<ord, osub>>

inventoryVars == <<invForm, save>>

barcodeVars == <<barcode, barcodeValidation>>

vars ==
    <<orders, orderItems, returns, returnItems, inventory, now, ret, search, sub,
      ord, osub, invForm, save, barcode, barcodeValidation, stats>>

OrderId(n) == <<"o1", "o2", "o3", "o4", "o5", "o6">>[n]

\* ------------------------------------------------- Return.vue: computed refs
RECURSIVE ReturnedSum(_, _)
ReturnedSum(items, id) ==
    IF items = << >> THEN 0
    ELSE (IF Head(items).orderItemId = id THEN Head(items).quantityReturned ELSE 0)
         + ReturnedSum(Tail(items), id)

\* returnedQuantityByOrderItem.get(id) || 0
returnedQuantityByOrderItem(r, id) == ReturnedSum(r.existingReturnItems, id)

lineRefundAmounts(r) ==
    [i \in DOMAIN r.returnLines |->
        LineAmount(r.returnLines[i].unitPrice, r.returnLines[i].quantityToReturn)]

totalRefundAmount(r) == ToFixed2(SeqSum(lineRefundAmounts(r)))

\* line.quantityToReturn && line.quantityToReturn > 0
Included(line) == Truthy(line.quantityToReturn) /\ NumGT(line.quantityToReturn, 0)

RECURSIVE IncludedFrom(_, _)
IncludedFrom(lines, i) ==
    IF i > Len(lines) THEN << >>
    ELSE (IF Included(lines[i]) THEN <<i>> ELSE << >>) \o IncludedFrom(lines, i + 1)

\* itemsToReturn without the filter: every line of the form.
itemsToReturnEveryLine(r) == [k \in DOMAIN r.returnLines |-> k]

\* returnLines.filter(line => line.quantityToReturn && line.quantityToReturn > 0),
\* as the indices of the lines kept.
itemsToReturn(r) == IncludedFrom(r.returnLines, 1)

\* ------------------------------------------------ Return.vue: buildReturnLines
RECURSIVE BuildFrom(_, _)
BuildFrom(r, items) ==
    IF items = << >> THEN << >>
    ELSE LET orderItem == Head(items)
             alreadyReturned == returnedQuantityByOrderItem(r, orderItem.id)
             maxReturnable == orderItem.quantity - alreadyReturned
         IN  (IF maxReturnable > 0
              THEN << [orderItemId |-> orderItem.id,
                       productId |-> orderItem.productId,
                       originalQuantity |-> orderItem.quantity,
                       maxReturnableQuantity |-> maxReturnable,
                       quantityToReturn |-> Null,
                       unitPrice |-> orderItem.unitPrice,
                       condition |-> "new"] >>
              ELSE << >>)
             \o BuildFrom(r, Tail(items))

RECURSIVE BuildFromKeepsZero(_, _)
BuildFromKeepsZero(r, items) ==
    IF items = << >> THEN << >>
    ELSE LET orderItem == Head(items)
             maxReturnable == orderItem.quantity
                                - returnedQuantityByOrderItem(r, orderItem.id)
         IN  (IF maxReturnable >= 0
              THEN << [orderItemId |-> orderItem.id,
                       productId |-> orderItem.productId,
                       originalQuantity |-> orderItem.quantity,
                       maxReturnableQuantity |-> maxReturnable,
                       quantityToReturn |-> Null,
                       unitPrice |-> orderItem.unitPrice,
                       condition |-> "new"] >>
              ELSE << >>)
             \o BuildFromKeepsZero(r, Tail(items))

\* buildReturnLines with `maxReturnable >= 0` for `maxReturnable > 0`.
buildReturnLinesKeepsZero(r) ==
    [r EXCEPT !.returnLines = BuildFromKeepsZero(r, r.orderItems)]

buildReturnLines(r) == [r EXCEPT !.returnLines = BuildFrom(r, r.orderItems)]

\* ----------------------------------------------------- Return.vue: validate
RECURSIVE LineErrorNoMax(_, _)
\* LineError without the check against maxReturnableQuantity.
LineErrorNoMax(lines, i) ==
    IF i > Len(lines) THEN ""
    ELSE LET line == lines[i]
             q == line.quantityToReturn
         IN  IF ~Included(line) THEN LineErrorNoMax(lines, i + 1)
             ELSE IF ~IsInteger(q) \/ ~NumGT(q, 0)
                  THEN "Return quantity must be a positive integer"
             ELSE IF line.condition = ""
                  THEN "Please select item condition"
             ELSE LineErrorNoMax(lines, i + 1)

RECURSIVE LineError(_, _)
\* The message of the first line that fails the per-line checks, "" if none.
LineError(lines, i) ==
    IF i > Len(lines) THEN ""
    ELSE LET line == lines[i]
             q == line.quantityToReturn
         IN  IF ~Included(line) THEN LineError(lines, i + 1)
             ELSE IF ~IsInteger(q) \/ ~NumGT(q, 0)
                  THEN "Return quantity must be a positive integer"
             ELSE IF NumGT(q, line.maxReturnableQuantity)
                  THEN "Cannot return more than the maximum returnable"
             ELSE IF line.condition = ""
                  THEN "Please select item condition"
             ELSE LineError(lines, i + 1)

\* validate() without the check of the refund total.
validateReturnNoTotal(r) ==
    IF r.selectedOrder = << >>
    THEN "Please search for and select an order first"
    ELSE IF itemsToReturn(r) = << >>
    THEN "Please select at least one item to return"
    ELSE LineError(r.returnLines, 1)

\* formError as validate() leaves it; validate() returns true iff it is "".
validateReturn(r) ==
    IF r.selectedOrder = << >>
    THEN "Please search for and select an order first"
    ELSE IF itemsToReturn(r) = << >>
    THEN "Please select at least one item to return"
    ELSE IF LineError(r.returnLines, 1) # ""
    THEN LineError(r.returnLines, 1)
    ELSE IF totalRefundAmount(r) <= 0
    THEN "Total refund amount must be greater than 0"
    ELSE ""

\* --------------------------------------------------- Return.vue: the stepper
incrementReturnQuantity(line) ==
    LET current == NumOr(line.quantityToReturn, 0)
    IN  IF NumLT(current, line.maxReturnableQuantity)
        THEN [line EXCEPT !.quantityToReturn = NumAdd(current, 1)]
        ELSE line

decrementReturnQuantity(line) ==
    LET current == NumOr(line.quantityToReturn, 1)
    IN  IF NumGT(current, 1)
        THEN [line EXCEPT !.quantityToReturn = NumAdd(current, -1)]
        ELSE line

removeLine(line) == [line EXCEPT !.quantityToReturn = Null]

\* ------------------------------------------------------- Return.vue: flows
IdleSub ==
    [pc |-> "idle", idxs |-> << >>, lines |-> << >>, live |-> FALSE,
     returnId |-> 0, total |-> 0, i |-> 0, arg |-> << >>]

RemoveAt(s, j) == [k \in 1 .. (Len(s) - 1) |-> IF k < j THEN s[k] ELSE s[k + 1]]

Activation(pc, arg, caller) ==
    [pc |-> pc, arg |-> arg, caller |-> caller, rets |-> << >>, k |-> 0, all |-> << >>]

\* A line object changed through the form is the same object the submission
\* in flight holds in itemsToReturn, as long as returnLines was not rebuilt.
WriteThrough(s, i, line) ==
    IF s.pc # "idle" /\ s.live
    THEN [s EXCEPT !.lines =
            [k \in DOMAIN s.lines |-> IF s.idxs[k] = i THEN line ELSE s.lines[k]]]
    ELSE s

SetLine(c, i, line) ==
    /\ ret' = [ret EXCEPT ![c].returnLines[i] = line]
    /\ sub' = [sub EXCEPT ![c] = WriteThrough(@, i, line)]
    /\ UNCHANGED <<storeVars, search>>

\* The return form is rendered: v-if="orderFound && returnLines.length > 0".
FormShown(r) == r.orderFound /\ Len(r.returnLines) > 0

UiIncrement(c, i) ==
    /\ FormShown(ret[c])
    /\ i \in DOMAIN ret[c].returnLines
    /\ incrementReturnQuantity(ret[c].returnLines[i]) # ret[c].returnLines[i]
    /\ SetLine(c, i, incrementReturnQuantity(ret[c].returnLines[i]))

UiDecrement(c, i) ==
    /\ FormShown(ret[c])
    /\ i \in DOMAIN ret[c].returnLines
    /\ decrementReturnQuantity(ret[c].returnLines[i]) # ret[c].returnLines[i]
    /\ SetLine(c, i, decrementReturnQuantity(ret[c].returnLines[i]))

UiRemoveLine(c, i) ==
    /\ FormShown(ret[c])
    /\ i \in DOMAIN ret[c].returnLines
    /\ Included(ret[c].returnLines[i])
    /\ SetLine(c, i, removeLine(ret[c].returnLines[i]))

SearchInputs == {"", " o1", "zz"}

\* v-model="orderIdSearch"
TypeOrderId(c, v) ==
    /\ ret[c].orderIdSearch # v
    /\ ret' = [ret EXCEPT ![c].orderIdSearch = v]
    /\ UNCHANGED <<storeVars, search, sub>>

resetForm(r) ==
    [r EXCEPT !.selectedOrder = << >>, !.orderItems = << >>,
              !.existingReturns = << >>, !.existingReturnItems = << >>,
              !.returnLines = << >>, !.orderIdSearch = "",
              !.orderFound = FALSE, !.formError = "", !.formSuccess = << >>]

\* The Reset button: shown with the form, disabled while submitting.
UiReset(c) ==
    /\ FormShown(ret[c])
    /\ ~ret[c].submitting
    /\ ret' = [ret EXCEPT ![c] = resetForm(@)]
    /\ sub' = [sub EXCEPT ![c].live = FALSE]
    /\ UNCHANGED <<storeVars, search>>

\* -------------------------------------------------------- the record store
\* client.models.Order.get({ id }): the record, or no data.
OrderGet(id) ==
    LET hit == {i \in DOMAIN orders : orders[i].id = id}
    IN  IF hit = {} THEN << >> ELSE << orders[CHOOSE i \in hit : TRUE] >>

RECURSIVE ListByOrderId(_, _)
\* list({ filter: { orderId: { eq: id } } })
ListByOrderId(recs, id) ==
    IF recs = << >> THEN << >>
    ELSE (IF Head(recs).orderId = id THEN <<Head(recs)>> ELSE << >>)
         \o ListByOrderId(Tail(recs), id)

RECURSIVE ListByReturnId(_, _)
\* list({ filter: { returnId: { eq: id } } })
ListByReturnId(recs, id) ==
    IF recs = << >> THEN << >>
    ELSE (IF Head(recs).returnId = id THEN <<Head(recs)>> ELSE << >>)
         \o ListByReturnId(Tail(recs), id)

\* What a store call can do: answer, or reject the promise.
Outcomes == {"ok", "throw"}

\* ---------------------------------------------------- Return.vue: searchOrder
\* The refs as searchOrder leaves them when its flow ends (finally), and with
\* it the submitReturn that awaited it (its own finally).
EndSearch(c, j, r) ==
    /\ search' = [search EXCEPT ![c] = RemoveAt(@, j)]
    /\ IF search[c][j].caller = "submit"
       THEN /\ ret' = [ret EXCEPT ![c] = [r EXCEPT !.searching = FALSE, !.submitting = FALSE]]
            /\ sub' = [sub EXCEPT ![c] = IdleSub]
       ELSE /\ ret' = [ret EXCEPT ![c] = [r EXCEPT !.searching = FALSE]]
            /\ UNCHANGED sub

\* The catch block of searchOrder without its assignment to formError.
SearchThrowsSilently(c, j) ==
    /\ EndSearch(c, j, ret[c])
    /\ UNCHANGED storeVars

\* catch (err): formError.value = err?.message || ...
SearchThrows(c, j) ==
    /\ EndSearch(c, j, [ret[c] EXCEPT !.formError = "Network error"])
    /\ UNCHANGED storeVars

\* Lines 164-166: buildReturnLines(); orderFound.value = true.  The lines of a
\* submission in flight are no longer the lines of the form.
SearchBuilds(c, j, r) ==
    /\ search' = [search EXCEPT ![c] = RemoveAt(@, j)]
    /\ IF search[c][j].caller = "submit"
       THEN /\ ret' = [ret EXCEPT ![c] =
                    [buildReturnLines(r) EXCEPT !.orderFound = TRUE,
                                                !.searching = FALSE, !.submitting = FALSE]]
            /\ sub' = [sub EXCEPT ![c] = IdleSub]
       ELSE /\ ret' = [ret EXCEPT ![c] =
                    [buildReturnLines(r) EXCEPT !.orderFound = TRUE, !.searching = FALSE]]
            /\ sub' = [sub EXCEPT ![c].live = FALSE]
    /\ UNCHANGED storeVars

\* Lines 109-123: searchOrder() up to its Order.get, or its early return.
searchOrder(c) ==
    /\ IF Trim(ret[c].orderIdSearch) = ""
       THEN /\ ret[c].formError # "Please enter an Order ID"
            /\ ret' = [ret EXCEPT ![c].formError = "Please enter an Order ID"]
            /\ UNCHANGED search
       ELSE /\ ret' = [ret EXCEPT ![c].searching = TRUE, ![c].formError = "",
                                  ![c].formSuccess = << >>, ![c].orderFound = FALSE]
            /\ search' = [search EXCEPT ![c] =
                    Append(@, Activation("get", Trim(ret[c].orderIdSearch), "ui"))]
    /\ UNCHANGED <<storeVars, sub>>

\* A click on Search or Enter in the input.
UiSearch(c) ==
    /\ Len(search[c]) + (IF sub[c].pc = "idle" THEN 0 ELSE 1) < MaxSearches
    /\ searchOrder(c)

\* Enter in the input while an earlier searchOrder is awaiting a query (the
\* Search button is disabled while searching, the input is not).
UiSearchAgain(c) ==
    /\ Len(search[c]) = 1
    /\ sub[c].pc = "idle"
    /\ searchOrder(c)

\* Lines 123-136: the answer of Order.get.
SearchGetResp(c, j, out) ==
    /\ search[c][j].pc = "get"
    /\ IF out = "throw" THEN SearchThrows(c, j)
       ELSE LET data == OrderGet(search[c][j].arg)
            IN  IF data = << >>
                THEN /\ EndSearch(c, j, [ret[c] EXCEPT !.formError = "Order not found"])
                     /\ UNCHANGED storeVars
                ELSE /\ ret' = [ret EXCEPT ![c].selectedOrder = data]
                     /\ search' = [search EXCEPT ![c][j].pc = "items",
                                                 ![c][j].arg = Trim(ret[c].orderIdSearch)]
                     /\ UNCHANGED <<storeVars, sub>>

\* Lines 134-143: the answer of OrderItem.list.
SearchItemsResp(c, j, out) ==
    /\ search[c][j].pc = "items"
    /\ IF out = "throw" THEN SearchThrows(c, j)
       ELSE /\ ret' = [ret EXCEPT ![c].orderItems = ListByOrderId(orderItems, search[c][j].arg)]
            /\ search' = [search EXCEPT ![c][j].pc = "returns",
                                        ![c][j].arg = Trim(ret[c].orderIdSearch)]
            /\ UNCHANGED <<storeVars, sub>>

\* Lines 141-166: the answer of Return.list.
SearchReturnsResp(c, j, out) ==
    /\ search[c][j].pc = "returns"
    /\ IF out = "throw" THEN SearchThrows(c, j)
       ELSE LET data == ListByOrderId(returns, search[c][j].arg)
            IN  IF Len(data) > 0
                THEN /\ ret' = [ret EXCEPT ![c].existingReturns = data]
                     /\ search' = [search EXCEPT ![c][j] =
                            [@ EXCEPT !.pc = "returnItems", !.rets = data, !.k = 1,
                                      !.all = << >>, !.arg = data[1].id]]
                     /\ UNCHANGED <<storeVars, sub>>
                ELSE SearchBuilds(c, j, [ret[c] EXCEPT !.existingReturns = data,
                                                      !.existingReturnItems = << >>])

\* Lines 150-166: the answer of one ReturnItem.list of the loop.
SearchReturnItemsResp(c, j, out) ==
    /\ search[c][j].pc = "returnItems"
    /\ IF out = "throw" THEN SearchThrows(c, j)
       ELSE LET a == search[c][j]
                allReturnItems == a.all \o ListByReturnId(returnItems, a.arg)
            IN  IF a.k < Len(a.rets)
                THEN /\ search' = [search EXCEPT ![c][j] =
                            [@ EXCEPT !.k = a.k + 1, !.all = allReturnItems,
                                      !.arg = a.rets[a.k + 1].id]]
                     /\ UNCHANGED <<storeVars, ret, sub>>
                ELSE SearchBuilds(c, j, [ret[c] EXCEPT !.existingReturnItems = allReturnItems])

\* --------------------------------------------------- Return.vue: submitReturn
CreateOutcomes == {"ok", "nodata", "throw"}

\* The argument of ReturnItem.create for the line object `line` (lines 297-306).
ReturnItemArg(returnId, line) ==
    [returnId |-> returnId,
     orderItemId |-> line.orderItemId,
     productId |-> line.productId,
     quantityReturned |-> line.quantityToReturn,
     refundAmount |-> LineAmount(line.unitPrice, line.quantityToReturn),
     condition |-> line.condition]

\* Lines 267-285: validate(), and up to the call of Return.create.
submitReturn(c) ==
    LET r == ret[c]
        total == totalRefundAmount(r)
    IN  IF validateReturn(r) # ""
        THEN /\ ret' = [ret EXCEPT ![c].formError = validateReturn(r)]
             /\ UNCHANGED <<storeVars, search, sub>>
        ELSE /\ ret' = [ret EXCEPT ![c].submitting = TRUE, ![c].formError = "",
                                   ![c].formSuccess = << >>]
             /\ sub' = [sub EXCEPT ![c] =
                    [pc |-> "create", idxs |-> itemsToReturn(r),
                     lines |-> [k \in DOMAIN itemsToReturn(r) |->
                                    r.returnLines[itemsToReturn(r)[k]]],
                     live |-> TRUE, returnId |-> 0, total |-> total, i |-> 0,
                     arg |-> << [orderId |-> r.selectedOrder[1].id,
                                 totalRefundAmount |-> total,
                                 status |-> "pending"] >>]]
             /\ UNCHANGED <<storeVars, search>>

\* The Process Return button rendered whether or not the form is shown.
UiSubmitReturnFormHidden(c) ==
    /\ ~ret[c].submitting
    /\ totalRefundAmount(ret[c]) > 0
    /\ Len(returns) + Cardinality({d \in Clients : sub[d].pc = "create"}) < MaxReturns
    /\ submitReturn(c)

\* The Process Return button: shown with the form, :disabled="submitting ||
\* totalRefundAmount <= 0".
UiSubmitReturn(c) ==
    /\ FormShown(ret[c])
    /\ ~ret[c].submitting
    /\ totalRefundAmount(ret[c]) > 0
    /\ Len(returns) + Cardinality({d \in Clients : sub[d].pc = "create"}) < MaxReturns
    /\ submitReturn(c)

\* catch / finally of submitReturn (lines 316-321).
SubmitEnds(c, msg) ==
    /\ ret' = [ret EXCEPT ![c].formError = msg, ![c].submitting = FALSE]
    /\ sub' = [sub EXCEPT ![c] = IdleSub]
    /\ UNCHANGED search

\* Lines 279-306: the answer of Return.create, up to the first ReturnItem.create.
ReturnCreateResp(c, out) ==
    /\ sub[c].pc = "create"
    /\ CASE out = "throw" -> SubmitEnds(c, "Network error") /\ UNCHANGED storeVars
         [] out = "nodata" ->
                SubmitEnds(c, "Failed to create return record") /\ UNCHANGED storeVars
         [] OTHER ->
                LET returnId == Len(returns) + 1
                IN  /\ returns' = Append(returns,
                            [id |-> returnId, orderId |-> sub[c].arg[1].orderId,
                             totalRefundAmount |-> sub[c].arg[1].totalRefundAmount,
                             status |-> sub[c].arg[1].status])
                    /\ sub' = [sub EXCEPT ![c] =
                            [@ EXCEPT !.pc = "item", !.returnId = returnId, !.i = 1,
                                      !.arg = << ReturnItemArg(returnId, sub[c].lines[1]) >>]]
                    /\ UNCHANGED <<orders, orderItems, returnItems, inventory, now, ret, search>>

\* The store takes a ReturnItem whose required integer field is an integer.
ReturnItemStored(arg) ==
    [id |-> Len(returnItems) + 1, returnId |-> arg.returnId,
     orderItemId |-> arg.orderItemId, productId |-> arg.productId,
     quantityReturned |-> arg.quantityReturned[1],
     refundAmount |-> arg.refundAmount, condition |-> arg.condition]

\* Lines 311-314 after the last ReturnItem.create: the success message, then
\* searchOrder() up to its Order.get (or its early return).
SubmitRefreshes(c) ==
    LET r == [ret[c] EXCEPT !.formSuccess = << sub[c].returnId >>]
    IN  IF Trim(r.orderIdSearch) = ""
        THEN /\ ret' = [ret EXCEPT ![c] =
                    [r EXCEPT !.formError = "Please enter an Order ID", !.submitting = FALSE]]
             /\ sub' = [sub EXCEPT ![c] = IdleSub]
             /\ UNCHANGED search
        ELSE /\ ret' = [ret EXCEPT ![c] =
                    [r EXCEPT !.searching = TRUE, !.formError = "",
                              !.formSuccess = << >>, !.orderFound = FALSE]]
             /\ sub' = [sub EXCEPT ![c] = [@ EXCEPT !.pc = "refresh", !.arg = << >>]]
             /\ search' = [search EXCEPT ![c] =
                    Append(@, Activation("get", Trim(r.orderIdSearch), "submit"))]

\* ReturnItemResp that also puts the returned units back into the stock of the
\* product.
ReturnItemRespRestocks(c, out) ==
    /\ sub[c].pc = "item"
    /\ IF out = "throw"
       THEN SubmitEnds(c, "Network error") /\ UNCHANGED storeVars
       ELSE /\ IF out = "ok" /\ IsInteger(sub[c].arg[1].quantityReturned)
               THEN /\ returnItems' = Append(returnItems, ReturnItemStored(sub[c].arg[1]))
                    /\ inventory' =
                        [k \in DOMAIN inventory |->
                            IF inventory[k].productId = sub[c].arg[1].productId
                            THEN [inventory[k] EXCEPT !.stockLevel =
                                        @ + sub[c].arg[1].quantityReturned[1]]
                            ELSE inventory[k]]
               ELSE UNCHANGED <<returnItems, inventory>>
            /\ UNCHANGED <<orders, orderItems, returns, now>>
            /\ IF sub[c].i < Len(sub[c].lines)
               THEN /\ sub' = [sub EXCEPT ![c] =
                            [@ EXCEPT !.i = sub[c].i + 1,
                                      !.arg = << ReturnItemArg(sub[c].returnId,
                                                               sub[c].lines[sub[c].i + 1]) >>]]
                    /\ UNCHANGED <<ret, search>>
               ELSE SubmitRefreshes(c)

\* Lines 296-314: the answer of one ReturnItem.create of the loop; its result
\* is not looked at.
ReturnItemResp(c, out) ==
    /\ sub[c].pc = "item"
    /\ IF out = "throw"
       THEN SubmitEnds(c, "Network error") /\ UNCHANGED storeVars
       ELSE /\ IF out = "ok" /\ IsInteger(sub[c].arg[1].quantityReturned)
               THEN returnItems' = Append(returnItems, ReturnItemStored(sub[c].arg[1]))
               ELSE UNCHANGED returnItems
            /\ UNCHANGED <<orders, orderItems, returns, inventory, now>>
            /\ IF sub[c].i < Len(sub[c].lines)
               THEN /\ sub' = [sub EXCEPT ![c] =
                            [@ EXCEPT !.i = sub[c].i + 1,
                                      !.arg = << ReturnItemArg(sub[c].returnId,
                                                               sub[c].lines[sub[c].i + 1]) >>]]
                    /\ UNCHANGED <<ret, search>>
               ELSE SubmitRefreshes(c)

\* ------------------------------------------------------------ initial states
InitRet ==
    [orderIdSearch |-> "", selectedOrder |-> << >>, orderItems |-> << >>,
     existingReturns |-> << >>, existingReturnItems |-> << >>, returnLines |-> << >>,
     orderFound |-> FALSE, submitting |-> FALSE, searching |-> FALSE,
     formError |-> "", formSuccess |-> << >>]

\* One completed order of two lines, nothing returned yet, and the stock that
\* the sale left.
InitReturnStore ==
    /\ orders = << [id |-> "o1", totalAmount |-> 4500, status |-> "completed"] >>
    /\ orderItems =
        << [id |-> 1, orderId |-> "o1", productId |-> "p1", quantity |-> 2,
            unitPrice |-> 1000, subtotal |-> 2000],
           [id |-> 2, orderId |-> "o1", productId |-> "p2", quantity |-> 1,
            unitPrice |-> 2500, subtotal |-> 2500] >>
    /\ returns = << >>
    /\ returnItems = << >>
    /\ inventory =
        << [id |-> "i1", productId |-> "p1", stockLevel |-> 3, lastUpdated |-> 0],
           [id |-> "i2", productId |-> "p2", stockLevel |-> 0, lastUpdated |-> 0] >>
    /\ now = 0

\* The components that a specification leaves unused.
InitReturnIdle ==
    /\ ret = [c \in Clients |-> InitRet]
    /\ search = [c \in Clients |-> << >>]
    /\ sub = [c \in Clients |-> IdleSub]

InitOrderIdle ==
    /\ ord = [c \in Clients |-> << >>]
    /\ osub = [c \in Clients |-> << >>]

InitInventoryIdle ==
    /\ invForm = [c \in Clients |-> << >>]
    /\ save = [c \in Clients |-> << >>]

InitBarcodeIdle ==
    /\ barcode = << >>
    /\ barcodeValidation = << >>

InitStatsIdle == stats = << >>

InitReturn ==
    /\ InitReturnStore
    /\ InitReturnIdle
    /\ InitOrderIdle
    /\ InitInventoryIdle
    /\ InitBarcodeIdle
    /\ InitStatsIdle

\* The return desk is one client; the other clients' return forms stay unused.
ReturnClients == {1}

\* The order forms and the inventory forms are not touched.
ReturnOnly == UNCHANGED <<orderVars, inventoryVars, barcodeVars, stats>>

NextReturn ==
    \E c \in ReturnClients :
        \/ \E v \in SearchInputs : TypeOrderId(c, v) /\ ReturnOnly
        \/ UiSearch(c) /\ ReturnOnly
        \/ \E j \in DOMAIN search[c], out \in Outcomes :
            \/ SearchGetResp(c, j, out) /\ ReturnOnly
            \/ SearchItemsResp(c, j, out) /\ ReturnOnly
            \/ SearchReturnsResp(c, j, out) /\ ReturnOnly
            \/ SearchReturnItemsResp(c, j, out) /\ ReturnOnly
        \/ \E i \in 1 .. 2 :
            \/ UiIncrement(c, i) /\ ReturnOnly
            \/ UiDecrement(c, i) /\ ReturnOnly
            \/ UiRemoveLine(c, i) /\ ReturnOnly
        \/ UiReset(c) /\ ReturnOnly
        \/ UiSubmitReturn(c) /\ ReturnOnly
        \/ \E out \in CreateOutcomes :
            \/ ReturnCreateResp(c, out) /\ ReturnOnly
            \/ ReturnItemResp(c, out) /\ ReturnOnly

SpecReturn == InitReturn /\ [][NextReturn]_vars

\* --------------------------------------------- the return desk, two orders
\* Two orders are stored, o2 with a unit already returned, and every store
\* call succeeds.  The clerk types either id, searches, may press Enter again
\* while a search is running, enters quantities and submits.
InitSearchStore ==
    /\ orders = << [id |-> "o1", totalAmount |-> 4500, status |-> "completed"],
                   [id |-> "o2", totalAmount |-> 2000, status |-> "completed"] >>
    /\ orderItems =
        << [id |-> 1, orderId |-> "o1", productId |-> "p1", quantity |-> 2,
            unitPrice |-> 1000, subtotal |-> 2000],
           [id |-> 2, orderId |-> "o1", productId |-> "p2", quantity |-> 1,
            unitPrice |-> 2500, subtotal |-> 2500],
           [id |-> 3, orderId |-> "o2", productId |-> "p1", quantity |-> 2,
            unitPrice |-> 1000, subtotal |-> 2000] >>
    /\ returns = << [id |-> 1, orderId |-> "o2", totalRefundAmount |-> 1000,
                     status |-> "pending"] >>
    /\ returnItems =
        << [id |-> 1, returnId |-> 1, orderItemId |-> 3, productId |-> "p1",
            quantityReturned |-> 1, refundAmount |-> 1000, condition |-> "new"] >>
    /\ inventory =
        << [id |-> "i1", productId |-> "p1", stockLevel |-> 1, lastUpdated |-> 0],
           [id |-> "i2", productId |-> "p2", stockLevel |-> 0, lastUpdated |-> 0] >>
    /\ now = 0

InitSearches ==
    /\ InitSearchStore
    /\ InitReturnIdle
    /\ InitOrderIdle
    /\ InitInventoryIdle
    /\ InitBarcodeIdle
    /\ InitStatsIdle

OrderIdInputs == {" o1", "o2 "}

NextSearches ==
    \E c \in ReturnClients :
        \/ \E v \in OrderIdInputs : TypeOrderId(c, v) /\ ReturnOnly
        \/ UiSearch(c) /\ ReturnOnly
        \/ UiSearchAgain(c) /\ ReturnOnly
        \/ \E j \in DOMAIN search[c] :
            \/ SearchGetResp(c, j, "ok") /\ ReturnOnly
            \/ SearchItemsResp(c, j, "ok") /\ ReturnOnly
            \/ SearchReturnsResp(c, j, "ok") /\ ReturnOnly
            \/ SearchReturnItemsResp(c, j, "ok") /\ ReturnOnly
        \/ \E i \in 1 .. 2 : UiIncrement(c, i) /\ ReturnOnly
        \/ UiSubmitReturn(c) /\ ReturnOnly
        \/ ReturnCreateResp(c, "ok") /\ ReturnOnly
        \/ ReturnItemResp(c, "ok") /\ ReturnOnly

SpecSearches == InitSearches /\ [][NextSearches]_vars

\* ------------------------------------------- the return form, any content
\* submitReturn run on a form whose fields hold any value of their TypeScript
\* types: the form spec below starts from every such form over the order of
\* InitReturnStore and lets submitReturn, and the flow it starts, run.
QtyInputs == {Null, <<0>>, <<-1>>, <<1>>, <<2>>, <<3>>, <<1, 5>>}

ConditionInputs == {"", "new"}

FormLine(item, max, q, price, cond) ==
    [orderItemId |-> item.id, productId |-> item.productId,
     originalQuantity |-> item.quantity, maxReturnableQuantity |-> max,
     quantityToReturn |-> q, unitPrice |-> price, condition |-> cond]

FormLinesOf(item) ==
    {FormLine(item, max, q, price, cond) :
        max \in 1 .. item.quantity, q \in QtyInputs,
        price \in {0, item.unitPrice}, cond \in ConditionInputs}

FormLineSeqs ==
    {<<l1>> : l1 \in FormLinesOf(orderItems[1])}
    \cup {<<l1, l2>> : l1 \in FormLinesOf(orderItems[1]), l2 \in FormLinesOf(orderItems[2])}

InitReturnForm ==
    /\ InitReturnStore
    /\ InitOrderIdle
    /\ InitInventoryIdle
    /\ InitBarcodeIdle
    /\ InitStatsIdle
    /\ search = [c \in Clients |-> << >>]
    /\ sub = [c \in Clients |-> IdleSub]
    /\ \E sel \in {<< >>, <<orders[1]>>}, lines \in FormLineSeqs :
        ret = [c \in Clients |->
                IF c \in ReturnClients
                THEN [InitRet EXCEPT !.orderIdSearch = " o1", !.selectedOrder = sel,
                                     !.orderItems = orderItems, !.returnLines = lines,
                                     !.orderFound = TRUE]
                ELSE InitRet]

\* submitReturn called on the form as it stands, no call being in flight.
CallSubmitReturn(c) ==
    /\ sub[c].pc = "idle"
    /\ search[c] = << >>
    /\ Len(returns) < MaxReturns
    /\ submitReturn(c)

NextReturnForm ==
    \E c \in ReturnClients :
        \/ CallSubmitReturn(c) /\ ReturnOnly
        \/ \E out \in CreateOutcomes :
            \/ ReturnCreateResp(c, out) /\ ReturnOnly
            \/ ReturnItemResp(c, out) /\ ReturnOnly
        \/ \E j \in DOMAIN search[c], out \in Outcomes :
            \/ SearchGetResp(c, j, out) /\ ReturnOnly
            \/ SearchItemsResp(c, j, out) /\ ReturnOnly
            \/ SearchReturnsResp(c, j, out) /\ ReturnOnly
            \/ SearchReturnItemsResp(c, j, out) /\ ReturnOnly

SpecReturnForm == InitReturnForm /\ [][NextReturnForm]_vars

\* =============================================================== Order.vue
\* ------------------------------------------------------------------ bounds
MaxOrders == 2
MaxQuantity == 2
MaxTime == 1

\* The Product records of the store (the catalogue does not change): p0 costs
\* 0.004 kr, pn is not for sale.
Products ==
    << [productId |-> "p1", listPrice |-> 1004, isSellable |-> TRUE],
       [productId |-> "p2", listPrice |-> 2004, isSellable |-> TRUE],
       [productId |-> "p0", listPrice |-> 4, isSellable |-> TRUE],
       [productId |-> "pn", listPrice |-> 1500, isSellable |-> FALSE] >>

RECURSIVE SelectSellable(_)
\* items.filter(product => product.isSellable === true)
SelectSellable(items) ==
    IF items = << >> THEN << >>
    ELSE IF Head(items).isSellable THEN <<Head(items)>> \o SelectSellable(Tail(items))
    ELSE SelectSellable(Tail(items))

\* The position in acc of the row of product p, 0 if there is none.
IndexOfProduct(acc, p) ==
    IF \E k \in DOMAIN acc : acc[k].productId = p
    THEN CHOOSE k \in DOMAIN acc : acc[k].productId = p /\ \A j \in 1 .. k - 1 : acc[j].productId # p
    ELSE 0

RECURSIVE CollapseInto(_, _)
\* The loop of listInventory over a snapshot: latestByProduct keeps, in the
\* order in which the products first appear, the row seen first among those
\* with the greatest lastUpdated.  Every read of lastUpdated is
\* `lastUpdated ?? 0`, so a row without lastUpdated is held here as a row with
\* lastUpdated 0.
CollapseInto(acc, items) ==
    IF items = << >> THEN acc
    ELSE LET it == Head(items)
             k == IndexOfProduct(acc, it.productId)
         IN  IF k = 0 THEN CollapseInto(Append(acc, it), Tail(items))
             ELSE IF it.lastUpdated > acc[k].lastUpdated
                  THEN CollapseInto([acc EXCEPT ![k] = it], Tail(items))
                  ELSE CollapseInto(acc, Tail(items))

\* latestByProduct.set(it.productId, it) for every row, whatever its
\* lastUpdated: the last row of each product stays.
latestByProductLastWins(items) ==
    LET keep == {k \in DOMAIN items :
                    \A j \in k + 1 .. Len(items) : items[j].productId # items[k].productId}
    IN  [i \in 1 .. Cardinality(keep) |->
            items[CHOOSE k \in keep : Cardinality({j \in keep : j <= k}) = i]]

latestByProduct(items) == CollapseInto(<< >>, items)

\* The refs of a mounted component before any snapshot has arrived.
BlankLine == [productId |-> "", quantity |-> Null]

InitOrd ==
    [products |-> << >>, inventoryItems |-> << >>, lines |-> <<BlankLine>>,
     submitting |-> FALSE, formError |-> << >>, formSuccess |-> << >>]

\* productById.get(p) as an option.
productById(o, p) ==
    IF \E k \in DOMAIN o.products : o.products[k].productId = p
    THEN <<o.products[CHOOSE k \in DOMAIN o.products :
                /\ o.products[k].productId = p
                /\ \A j \in k + 1 .. Len(o.products) : o.products[j].productId # p]>>
    ELSE << >>

\* stockByProductId.get(p) ?? 0: of several rows of a product the last one set
\* the map entry.
stockByProductId(o, p) ==
    IF \E k \in DOMAIN o.inventoryItems : o.inventoryItems[k].productId = p
    THEN o.inventoryItems[CHOOSE k \in DOMAIN o.inventoryItems :
                /\ o.inventoryItems[k].productId = p
                /\ \A j \in k + 1 .. Len(o.inventoryItems) :
                        o.inventoryItems[j].productId # p].stockLevel
    ELSE 0

\* priceByProductId.get(p) ?? 0
priceByProductId(o, p) ==
    IF productById(o, p) = << >> THEN 0 ELSE productById(o, p)[1].listPrice

lineSubtotals(o) ==
    [i \in DOMAIN o.lines |->
        LineAmount(priceByProductId(o, o.lines[i].productId), o.lines[i].quantity)]

orderTotal(o) == ToFixed2(SeqSum(lineSubtotals(o)))

\* inventoryItems.value.find(inv => inv.productId === p) || null
findInventoryByProductId(o, p) ==
    IF IndexOfProduct(o.inventoryItems, p) = 0 THEN << >>
    ELSE <<o.inventoryItems[IndexOfProduct(o.inventoryItems, p)]>>

\* The line checks without the comparison with the stock.
OrderLineErrorNoStock(o, idx) ==
    LET l == o.lines[idx]
        product == productById(o, l.productId)
    IN  IF l.productId = "" THEN <<"Please select a product.", idx>>
        ELSE IF product = << >> THEN <<"Product not found.", idx>>
        ELSE IF ~product[1].isSellable THEN <<"Product is not sellable.", idx>>
        ELSE IF \E j \in 1 .. idx - 1 : o.lines[j].productId = l.productId
             THEN <<"Product is duplicated. Use quantity on a single line.", idx>>
        ELSE IF l.quantity = Null \/ ~IsInteger(l.quantity) \/ ~NumGT(l.quantity, 0)
             THEN <<"Quantity must be a positive integer.", idx>>
        ELSE << >>

\* The message validate leaves for line idx alone, << >> if the line passes.
OrderLineError(o, idx) ==
    LET l == o.lines[idx]
        product == productById(o, l.productId)
        available == stockByProductId(o, l.productId)
    IN  IF l.productId = "" THEN <<"Please select a product.", idx>>
        ELSE IF product = << >> THEN <<"Product not found.", idx>>
        ELSE IF ~product[1].isSellable THEN <<"Product is not sellable.", idx>>
        ELSE IF \E j \in 1 .. idx - 1 : o.lines[j].productId = l.productId
             THEN <<"Product is duplicated. Use quantity on a single line.", idx>>
        ELSE IF l.quantity = Null \/ ~IsInteger(l.quantity) \/ ~NumGT(l.quantity, 0)
             THEN <<"Quantity must be a positive integer.", idx>>
        ELSE IF NumGT(l.quantity, available) THEN <<"Only this many in stock", idx, available>>
        ELSE << >>

\* validate(): the formError it leaves, << >> when it returns true.
validateOrder(o) ==
    IF ~\E i \in DOMAIN o.lines : o.lines[i].productId # "" /\ o.lines[i].quantity # Null
    THEN <<"Please add at least one product and quantity.">>
    ELSE IF \E i \in DOMAIN o.lines : OrderLineError(o, i) # << >>
    THEN OrderLineError(o, CHOOSE i \in DOMAIN o.lines :
                /\ OrderLineError(o, i) # << >>
                /\ \A j \in 1 .. i - 1 : OrderLineError(o, j) = << >>)
    ELSE IF orderTotal(o) <= 0 THEN <<"Order total must be greater than 0.">>
    ELSE << >>

\* One element of `prepared`, with the subtotal left unrounded.
PreparedItemUnrounded(o, l) ==
    [productId |-> l.productId, quantity |-> l.quantity[1],
     unitPrice |-> priceByProductId(o, l.productId),
     subtotal |-> priceByProductId(o, l.productId) * l.quantity[1]]

\* One element of `prepared` (the lines that pass validation hold integers).
PreparedItem(o, l) ==
    [productId |-> l.productId, quantity |-> l.quantity[1],
     unitPrice |-> priceByProductId(o, l.productId),
     subtotal |-> ToFixed2(priceByProductId(o, l.productId) * l.quantity[1])]

RECURSIVE PreparedFrom(_, _)
PreparedFrom(o, ls) ==
    IF ls = << >> THEN << >>
    ELSE IF Head(ls).productId # "" /\ Truthy(Head(ls).quantity) /\ NumGT(Head(ls).quantity, 0)
         THEN <<PreparedItem(o, Head(ls))>> \o PreparedFrom(o, Tail(ls))
         ELSE PreparedFrom(o, Tail(ls))

prepared(o) == PreparedFrom(o, o.lines)

\* prepared.reduce((sum, i) => sum + i.subtotal, 0)
RECURSIVE SubtotalSum(_)
SubtotalSum(items) ==
    IF items = << >> THEN 0 ELSE Head(items).subtotal + SubtotalSum(Tail(items))

resetOrderForm(o) ==
    [o EXCEPT !.lines = <<BlankLine>>, !.formError = << >>, !.formSuccess = << >>]

\* ------------------------------------------------------------ submitOrder
\* A submitOrder call: pc is the store call awaited ("order", "item", "inv"),
\* arg its argument, index the position in `prepared` of the line in hand.
\* shown records the stock displayed for each prepared line when validate
\* ran, allOk that every store call of the submission so far succeeded.
IdleOsub ==
    [pc |-> "idle", prepared |-> << >>, shown |-> << >>, orderId |-> "",
     index |-> 0, arg |-> << >>, allOk |-> TRUE]

\* The clamp of line 332: newStock < 0 ? 0 : newStock, left out.
NewStockLevelUnclamped(currentStock, quantity) == currentStock - quantity

\* newStock < 0 ? 0 : newStock, for newStock = currentStock - quantity.
NewStockLevel(currentStock, quantity) ==
    IF currentStock - quantity < 0 THEN 0 ELSE currentStock - quantity

\* An update that the store applies only when it carries a later lastUpdated
\* than the row holds.
UpdateRowIfNewer(rows, arg) ==
    [k \in DOMAIN rows |->
        IF rows[k].id = arg.id /\ arg.lastUpdated > rows[k].lastUpdated
        THEN [rows[k] EXCEPT !.stockLevel = arg.stockLevel, !.lastUpdated = arg.lastUpdated]
        ELSE rows[k]]

\* Inventory.update({id, stockLevel, lastUpdated}) applied by the store: the
\* fields given replace those of the row with that id.
UpdateRow(rows, arg) ==
    [k \in DOMAIN rows |->
        IF rows[k].id = arg.id
        THEN [rows[k] EXCEPT !.stockLevel = arg.stockLevel, !.lastUpdated = arg.lastUpdated]
        ELSE rows[k]]

\* Every failure of a store call ends the submission.
AbortsOnAnyFailure(out) == out # "ok"

\* A store call that throws leaves the loop for the catch block of
\* submitOrder; one that returns without data does not.
Aborts(out) == out = "throw"

\* ItemCall walking the prepared lines from the last to the first.
ItemCallBackwards(s, k) ==
    [s EXCEPT !.pc = "item", !.index = k,
              !.arg = <<[orderId |-> s.orderId,
                         productId |-> s.prepared[Len(s.prepared) + 1 - k].productId,
                         quantity |-> s.prepared[Len(s.prepared) + 1 - k].quantity,
                         unitPrice |-> s.prepared[Len(s.prepared) + 1 - k].unitPrice,
                         subtotal |-> s.prepared[Len(s.prepared) + 1 - k].subtotal]>>]

\* The body of the loop up to the OrderItem.create call for line k.
ItemCall(s, k) ==
    [s EXCEPT !.pc = "item", !.index = k,
              !.arg = <<[orderId |-> s.orderId, productId |-> s.prepared[k].productId,
                         quantity |-> s.prepared[k].quantity,
                         unitPrice |-> s.prepared[k].unitPrice,
                         subtotal |-> s.prepared[k].subtotal]>>]

\* OrderEnds without the finally block: submitting stays as it is.
OrderEndsWithoutFinally(c, msg) ==
    /\ ord' = [ord EXCEPT ![c].formError = msg]
    /\ osub' = [osub EXCEPT ![c] = IdleOsub]

\* submitOrder returns, through catch or the orderId check, with formError msg.
OrderEnds(c, msg) ==
    /\ ord' = [ord EXCEPT ![c].formError = msg, ![c].submitting = FALSE]
    /\ osub' = [osub EXCEPT ![c] = IdleOsub]

\* The loop is over: formSuccess is set, resetForm() clears the form (and
\* formSuccess with it), listInventory() subscribes again, finally.
OrderDone(c, s) ==
    /\ ord' = [ord EXCEPT ![c] =
                [resetOrderForm([ord[c] EXCEPT !.formSuccess = <<s.orderId>>])
                    EXCEPT !.submitting = FALSE]]
    /\ osub' = [osub EXCEPT ![c] = IdleOsub]

\* The loop goes on with the line after s.index, or is over.
NextLine(c, s) ==
    IF s.index < Len(s.prepared)
    THEN osub' = [osub EXCEPT ![c] = ItemCall(s, s.index + 1)] /\ UNCHANGED ord
    ELSE OrderDone(c, s)

\* submitOrder() on the component state o of client c, up to Order.create.
submitOrderOn(c, o) ==
    /\ osub[c].pc = "idle"
    /\ IF validateOrder(o) # << >>
       THEN /\ ord' = [ord EXCEPT ![c] = [o EXCEPT !.formError = validateOrder(o)]]
            /\ UNCHANGED osub
       ELSE /\ Len(orders) + Cardinality({d \in Clients : osub[d].pc = "order"}) < MaxOrders
            /\ ord' = [ord EXCEPT ![c] =
                        [o EXCEPT !.submitting = TRUE, !.formError = << >>,
                                  !.formSuccess = << >>]]
            /\ osub' = [osub EXCEPT ![c] =
                        [IdleOsub EXCEPT
                            !.pc = "order",
                            !.prepared = prepared(o),
                            !.shown = [k \in DOMAIN prepared(o) |->
                                        stockByProductId(o, prepared(o)[k].productId)],
                            !.arg = <<[orderDate |-> now, status |-> "completed",
                                       totalAmount |-> ToFixed2(SubtotalSum(prepared(o)))]>>]]
    /\ UNCHANGED <<orders, orderItems, inventory, now>>

\* The cashier brings the form to `lines`, picking each product from the
\* options of the select or with the scanner and setting each quantity with
\* the stepper (the lines are read by validate and copied into `prepared` at
\* the click only), and clicks Place Order, which is enabled while no
\* submission is running.
UiSubmitOrder(c, lines) ==
    /\ ~ord[c].submitting
    /\ \A i \in DOMAIN lines : productById(ord[c], lines[i].productId) # << >>
    /\ submitOrderOn(c, [ord[c] EXCEPT !.lines = lines])

\* The Reset button, enabled while no submission is running.
UiResetOrder(c) ==
    /\ ~ord[c].submitting
    /\ ord[c] # resetOrderForm(ord[c])
    /\ ord' = [ord EXCEPT ![c] = resetOrderForm(ord[c])]
    /\ UNCHANGED <<storeVars, osub>>

\* OrderCreateResp without the check of orderId: the loop runs with whatever
\* orderRes.data?.id is.
OrderCreateRespWithoutIdCheck(c, out) ==
    /\ osub[c].pc = "order"
    /\ UNCHANGED <<orderItems, inventory, now>>
    /\ CASE out = "throw" -> OrderEnds(c, <<"Network error">>) /\ UNCHANGED orders
         [] out = "nodata" ->
            /\ osub' = [osub EXCEPT ![c] = ItemCall([osub[c] EXCEPT !.orderId = ""], 1)]
            /\ UNCHANGED <<orders, ord>>
         [] OTHER ->
            /\ orders' = Append(orders, [id |-> OrderId(Len(orders) + 1),
                                         orderDate |-> osub[c].arg[1].orderDate,
                                         status |-> osub[c].arg[1].status,
                                         totalAmount |-> osub[c].arg[1].totalAmount])
            /\ osub' = [osub EXCEPT ![c] =
                            ItemCall([osub[c] EXCEPT !.orderId = OrderId(Len(orders) + 1)], 1)]
            /\ UNCHANGED ord

\* Order.create returns or throws.
OrderCreateResp(c, out) ==
    /\ osub[c].pc = "order"
    /\ UNCHANGED <<orderItems, inventory, now>>
    /\ CASE out = "throw" -> OrderEnds(c, <<"Network error">>) /\ UNCHANGED orders
         [] out = "nodata" -> OrderEnds(c, <<"Failed to create order">>) /\ UNCHANGED orders
         [] OTHER ->
            /\ orders' = Append(orders, [id |-> OrderId(Len(orders) + 1),
                                         orderDate |-> osub[c].arg[1].orderDate,
                                         status |-> osub[c].arg[1].status,
                                         totalAmount |-> osub[c].arg[1].totalAmount])
            /\ osub' = [osub EXCEPT ![c] =
                            ItemCall([osub[c] EXCEPT !.orderId = OrderId(Len(orders) + 1)], 1)]
            /\ UNCHANGED ord

\* OrderItem.create returns or throws; its result is not looked at.  The row
\* to update is then looked up in the snapshot the component holds now.
OrderItemResp(c, out) ==
    LET s == [osub[c] EXCEPT !.allOk = @ /\ out = "ok"]
        item == s.prepared[s.index]
        inv == findInventoryByProductId(ord[c], item.productId)
    IN  /\ osub[c].pc = "item"
        /\ UNCHANGED <<orders, inventory, now>>
        /\ IF Aborts(out)
           THEN OrderEnds(c, <<"Network error">>) /\ UNCHANGED orderItems
           ELSE /\ orderItems' =
                    IF out = "ok"
                    THEN Append(orderItems,
                                [id |-> Len(orderItems) + 1, orderId |-> s.arg[1].orderId,
                                 productId |-> s.arg[1].productId,
                                 quantity |-> s.arg[1].quantity,
                                 unitPrice |-> s.arg[1].unitPrice,
                                 subtotal |-> s.arg[1].subtotal])
                    ELSE orderItems
                /\ IF inv = << >>
                   THEN NextLine(c, s)
                   ELSE /\ osub' = [osub EXCEPT ![c] =
                                [s EXCEPT !.pc = "inv",
                                          !.arg = <<[id |-> inv[1].id,
                                                     stockLevel |-> NewStockLevel(inv[1].stockLevel, item.quantity),
                                                     lastUpdated |-> now]>>]]
                        /\ UNCHANGED ord

\* Inventory.update returns or throws.
InvUpdateResp(c, out) ==
    LET s == [osub[c] EXCEPT !.allOk = @ /\ out = "ok"]
    IN  /\ osub[c].pc = "inv"
        /\ UNCHANGED <<orders, orderItems, now>>
        /\ IF Aborts(out)
           THEN OrderEnds(c, <<"Network error">>) /\ UNCHANGED inventory
           ELSE /\ inventory' = IF out = "ok" THEN UpdateRow(inventory, s.arg[1]) ELSE inventory
                /\ NextLine(c, s)

\* observeQuery delivers the Inventory rows of the store to the component.
InventorySnapshot(c) ==
    /\ ord[c].inventoryItems # latestByProduct(inventory)
    /\ ord' = [ord EXCEPT ![c].inventoryItems = latestByProduct(inventory)]
    /\ UNCHANGED <<storeVars, osub>>

\* observeQuery delivers the Product records of the store to the component.
ProductsSnapshot(c) ==
    /\ ord[c].products # SelectSellable(Products)
    /\ ord' = [ord EXCEPT ![c].products = SelectSellable(Products)]
    /\ UNCHANGED <<storeVars, osub>>

\* A millisecond passes.
Tick ==
    /\ now < MaxTime
    /\ now' = now + 1
    /\ UNCHANGED <<orders, orderItems, returns, returnItems, inventory, orderVars>>

\* ------------------------------------------------------ the shop, one till
InitOrderStore ==
    /\ orders = << >>
    /\ orderItems = << >>
    /\ returns = << >>
    /\ returnItems = << >>
    /\ inventory =
        << [id |-> "i1", productId |-> "p1", stockLevel |-> 2, lastUpdated |-> 0],
           [id |-> "i2", productId |-> "p2", stockLevel |-> 1, lastUpdated |-> 0] >>
    /\ now = 0

InitOrder ==
    /\ InitOrderStore
    /\ InitReturnIdle
    /\ InitInventoryIdle
    /\ InitBarcodeIdle
    /\ InitStatsIdle
    /\ ord = [c \in Clients |-> InitOrd]
    /\ osub = [c \in Clients |-> IdleOsub]

\* The forms a cashier fills in: a line of either product, or a line of p1
\* and a line of p2, each quantity set with the stepper.
OrderLines ==
    {[productId |-> p, quantity |-> <<q>>] : p \in {"p1", "p2"}, q \in 1 .. MaxQuantity}

OrderForms ==
    {<<l>> : l \in OrderLines}
        \cup {f \in OrderLines \X OrderLines : f[1].productId = "p1" /\ f[2].productId = "p2"}

\* One till is open; the other clients' order forms stay unused.  Nothing
\* here depends on the time, which stands still.
OrderClients == {1}

\* The return forms, the inventory forms and the return records are not touched.
OrderOnly == UNCHANGED <<returns, returnItems, returnVars, inventoryVars, barcodeVars, stats>>

NextOrder ==
    \/ \E c \in OrderClients :
        \/ \E lines \in OrderForms : UiSubmitOrder(c, lines) /\ OrderOnly
        \/ \E out \in CreateOutcomes :
            \/ OrderCreateResp(c, out) /\ OrderOnly
            \/ OrderItemResp(c, out) /\ OrderOnly
            \/ InvUpdateResp(c, out) /\ OrderOnly
        \/ UiResetOrder(c) /\ OrderOnly
        \/ InventorySnapshot(c) /\ OrderOnly
        \/ ProductsSnapshot(c) /\ OrderOnly

SpecOrder == InitOrder /\ [][NextOrder]_vars

\* ------------------------------------- one till, every store call succeeds
NextOrderNoFailure ==
    \/ \E c \in OrderClients :
        \/ \E lines \in OrderForms : UiSubmitOrder(c, lines) /\ OrderOnly
        \/ OrderCreateResp(c, "ok") /\ OrderOnly
        \/ OrderItemResp(c, "ok") /\ OrderOnly
        \/ InvUpdateResp(c, "ok") /\ OrderOnly
        \/ UiResetOrder(c) /\ OrderOnly
        \/ InventorySnapshot(c) /\ OrderOnly
        \/ ProductsSnapshot(c) /\ OrderOnly

SpecOrderNoFailure == InitOrder /\ [][NextOrderNoFailure]_vars

\* ----------------------------------------- two tills selling one product
\* Every client is a till; each order is one line of product p1.
TillForms == {<<[productId |-> "p1", quantity |-> <<q>>]>> : q \in 1 .. MaxQuantity}

NextTills ==
    \/ \E c \in Clients :
        \/ \E lines \in TillForms : UiSubmitOrder(c, lines) /\ OrderOnly
        \/ \E out \in CreateOutcomes :
            \/ OrderCreateResp(c, out) /\ OrderOnly
            \/ OrderItemResp(c, out) /\ OrderOnly
            \/ InvUpdateResp(c, out) /\ OrderOnly
        \/ UiResetOrder(c) /\ OrderOnly
        \/ InventorySnapshot(c) /\ OrderOnly
        \/ ProductsSnapshot(c) /\ OrderOnly
    \/ Tick /\ OrderOnly

SpecTills == InitOrder /\ [][NextTills]_vars

\* --------------------------------------------- the order form, any content
\* submitOrder run on a form whose lines hold any value of their TypeScript
\* types, with the sellable products loaded and a stock row for each of them.
FormProducts == {"", "p1", "p2", "p0", "pn"}

OrderFormLines == {[productId |-> p, quantity |-> q] : p \in FormProducts, q \in QtyInputs}

InitOrderForm ==
    /\ orders = << >>
    /\ orderItems = << >>
    /\ returns = << >>
    /\ returnItems = << >>
    /\ inventory =
        << [id |-> "i1", productId |-> "p1", stockLevel |-> 2, lastUpdated |-> 0],
           [id |-> "i2", productId |-> "p2", stockLevel |-> 1, lastUpdated |-> 0],
           [id |-> "i3", productId |-> "p0", stockLevel |-> 1, lastUpdated |-> 0] >>
    /\ now = 0
    /\ InitReturnIdle
    /\ InitInventoryIdle
    /\ InitBarcodeIdle
    /\ InitStatsIdle
    /\ osub = [c \in Clients |-> IdleOsub]
    /\ \E lines \in {<<l>> : l \in OrderFormLines} \cup (OrderFormLines \X OrderFormLines) :
        ord = [c \in Clients |->
                IF c \in OrderClients
                THEN [InitOrd EXCEPT !.products = SelectSellable(Products),
                                     !.inventoryItems = latestByProduct(inventory),
                                     !.lines = lines]
                ELSE InitOrd]

\* submitOrder called on the form as it stands.
CallSubmitOrder(c) == submitOrderOn(c, ord[c])

NextOrderForm ==
    \E c \in OrderClients :
        \/ CallSubmitOrder(c) /\ OrderOnly
        \/ \E out \in CreateOutcomes :
            \/ OrderCreateResp(c, out) /\ OrderOnly
            \/ OrderItemResp(c, out) /\ OrderOnly
            \/ InvUpdateResp(c, out) /\ OrderOnly

SpecOrderForm == InitOrderForm /\ [][NextOrderForm]_vars

\* =========================================================== Inventory.vue
MaxRows == 3

InitInvForm ==
    [selectedProductId |-> "", stockLevel |-> Null, purchasePrice |-> Null,
     showForm |-> FALSE, formError |-> "", editingInventory |-> << >>,
     isEditMode |-> FALSE, inventoryItems |-> << >>]

IdleSave == [pc |-> "idle", arg |-> << >>]

RECURSIVE InsertByLastUpdated(_, _)
\* row put behind the rows of s that are not older than it.
InsertByLastUpdated(s, row) ==
    IF s = << >> THEN <<row>>
    ELSE IF Head(s).lastUpdated >= row.lastUpdated
         THEN <<Head(s)>> \o InsertByLastUpdated(Tail(s), row)
         ELSE <<row>> \o s

RECURSIVE SortByLastUpdatedDesc(_)
\* collapsed.sort((a, b) => (b.lastUpdated ?? 0) - (a.lastUpdated ?? 0)), a
\* stable sort.
SortByLastUpdatedDesc(s) ==
    IF s = << >> THEN << >>
    ELSE InsertByLastUpdated(SortByLastUpdatedDesc(SubSeq(s, 1, Len(s) - 1)), s[Len(s)])

\* validateForm(): the formError it leaves, "" when it returns true.
validateForm(f) ==
    IF f.selectedProductId = "" THEN "Please select a product"
    ELSE IF f.stockLevel = Null \/ NumLT(f.stockLevel, 0) \/ ~IsInteger(f.stockLevel)
         THEN "Stock level must be a non-negative integer"
    ELSE IF f.purchasePrice # Null /\ NumLT(f.purchasePrice, 0)
         THEN "Purchase price must be a non-negative number"
    ELSE ""

resetInventoryForm(f) ==
    [f EXCEPT !.selectedProductId = "", !.stockLevel = Null, !.purchasePrice = Null,
              !.formError = "", !.editingInventory = << >>, !.isEditMode = FALSE]

\* The `+ Add Inventory` button, shown while the form is hidden.
UiToggleForm(c) ==
    /\ ~invForm[c].showForm
    /\ invForm' = [invForm EXCEPT ![c].showForm = TRUE]
    /\ UNCHANGED <<storeVars, save>>

\* cancelEdit()
UiCancelEdit(c) ==
    /\ invForm[c].showForm
    /\ invForm' = [invForm EXCEPT ![c] = [resetInventoryForm(@) EXCEPT !.showForm = FALSE]]
    /\ UNCHANGED <<storeVars, save>>

\* The product select, disabled in edit mode.
UiSelectInventoryProduct(c, p) ==
    /\ invForm[c].showForm /\ ~invForm[c].isEditMode
    /\ invForm[c].selectedProductId # p
    /\ invForm' = [invForm EXCEPT ![c].selectedProductId = p]
    /\ UNCHANGED <<storeVars, save>>

\* What is typed into the stock level field (v-model.number).
StockInputs == {<<-1>>, <<1>>, <<1, 5>>}

UiTypeStockLevel(c, v) ==
    /\ invForm[c].showForm
    /\ invForm[c].stockLevel # v
    /\ invForm' = [invForm EXCEPT ![c].stockLevel = v]
    /\ UNCHANGED <<storeVars, save>>

\* startEdit(inv) for the k-th row listed.
UiStartEdit(c, k) ==
    /\ k \in DOMAIN invForm[c].inventoryItems
    /\ invForm' = [invForm EXCEPT ![c] =
            [@ EXCEPT !.editingInventory = <<invForm[c].inventoryItems[k]>>,
                      !.isEditMode = TRUE,
                      !.selectedProductId = invForm[c].inventoryItems[k].productId,
                      !.stockLevel = <<invForm[c].inventoryItems[k].stockLevel>>,
                      !.purchasePrice = Null,
                      !.showForm = TRUE]]
    /\ UNCHANGED <<storeVars, save>>

\* observeQuery delivers the Inventory rows of the store to the component.
InventoryListSnapshot(c) ==
    /\ invForm[c].inventoryItems # SortByLastUpdatedDesc(latestByProduct(inventory))
    /\ invForm' = [invForm EXCEPT ![c].inventoryItems =
                        SortByLastUpdatedDesc(latestByProduct(inventory))]
    /\ UNCHANGED <<storeVars, save>>

\* The arguments of Inventory.update or Inventory.create, read from the form
\* as it stands when the call is made.
SaveCall(f, id) ==
    [pc |-> IF id = << >> THEN "create" ELSE "update",
     arg |-> <<[id |-> id, productId |-> f.selectedProductId,
                stockLevel |-> f.stockLevel, lastUpdated |-> now]>>]

\* saveInventory() up to its first await.
UiSaveInventory(c) ==
    /\ invForm[c].showForm
    /\ save[c].pc = "idle"
    /\ UNCHANGED storeVars
    /\ IF validateForm(invForm[c]) # ""
       THEN /\ invForm' = [invForm EXCEPT ![c].formError = validateForm(invForm[c])]
            /\ UNCHANGED save
       ELSE /\ invForm' = [invForm EXCEPT ![c].formError = ""]
            /\ save' = [save EXCEPT ![c] =
                    IF invForm[c].isEditMode /\ invForm[c].editingInventory # << >>
                    THEN SaveCall(invForm[c], <<invForm[c].editingInventory[1].id>>)
                    ELSE [pc |-> "find", arg |-> <<invForm[c].selectedProductId>>]]

\* catch: the call in flight threw.
SaveFails(c) ==
    /\ invForm' = [invForm EXCEPT ![c].formError = "Failed to save inventory. Please try again."]
    /\ save' = [save EXCEPT ![c] = IdleSave]

\* findExistingInventoryByProduct returns res.data?.[0]; the update or the
\* create that follows takes its field values from the form as it is now.
SaveFindResp(c, out) ==
    LET hit == IndexOfProduct(inventory, save[c].arg[1])
        existing == IF out = "ok" /\ hit # 0 THEN <<inventory[hit].id>> ELSE << >>
    IN  /\ save[c].pc = "find"
        /\ UNCHANGED storeVars
        /\ IF out = "throw" THEN SaveFails(c)
           ELSE /\ existing = << >> => Len(inventory) < MaxRows
                /\ save' = [save EXCEPT ![c] = SaveCall(invForm[c], existing)]
                /\ UNCHANGED invForm

\* The store takes a stockLevel that is an integer (a.integer().required()).
StoreTakes(arg) == arg.stockLevel # Null /\ IsInteger(arg.stockLevel)

RowId(n) == <<"i1", "i2", "i3", "i4", "i5", "i6">>[n]

\* Inventory.update or Inventory.create returns or throws; then the list is
\* subscribed to again, the form reset and hidden.
SaveWriteResp(c, out) ==
    LET arg == save[c].arg[1]
        row == [id |-> arg.id, stockLevel |-> arg.stockLevel[1], lastUpdated |-> arg.lastUpdated]
    IN  /\ save[c].pc \in {"update", "create"}
        /\ UNCHANGED <<orders, orderItems, returns, returnItems, now>>
        /\ IF out = "throw" THEN SaveFails(c) /\ UNCHANGED inventory
           ELSE /\ inventory' =
                    IF out = "ok" /\ StoreTakes(arg)
                    THEN IF save[c].pc = "update"
                         THEN UpdateRow(inventory, [row EXCEPT !.id = arg.id[1]])
                         ELSE Append(inventory,
                                     [id |-> RowId(Len(inventory) + 1),
                                      productId |-> arg.productId,
                                      stockLevel |-> arg.stockLevel[1],
                                      lastUpdated |-> arg.lastUpdated])
                    ELSE inventory
                /\ invForm' = [invForm EXCEPT ![c] =
                                [resetInventoryForm(@) EXCEPT !.showForm = FALSE]]
                /\ save' = [save EXCEPT ![c] = IdleSave]

\* ------------------------------------------------------- the stock keeper
InventoryClients == {1}

InventoryProducts == {"p1", "p0"}

InitInventory ==
    /\ InitOrderStore
    /\ InitReturnIdle
    /\ InitOrderIdle
    /\ InitBarcodeIdle
    /\ InitStatsIdle
    /\ invForm = [c \in Clients |-> InitInvForm]
    /\ save = [c \in Clients |-> IdleSave]

\* The return forms and the order forms are not touched.
InventoryOnly == UNCHANGED <<returnVars, orderVars, barcodeVars, stats>>

NextInventory ==
    \/ \E c \in InventoryClients :
        \/ UiToggleForm(c) /\ InventoryOnly
        \/ UiCancelEdit(c) /\ InventoryOnly
        \/ \E p \in InventoryProducts : UiSelectInventoryProduct(c, p) /\ InventoryOnly
        \/ \E v \in StockInputs : UiTypeStockLevel(c, v) /\ InventoryOnly
        \/ \E k \in 1 .. MaxRows : UiStartEdit(c, k) /\ InventoryOnly
        \/ InventoryListSnapshot(c) /\ InventoryOnly
        \/ UiSaveInventory(c) /\ InventoryOnly
        \/ \E out \in CreateOutcomes :
            \/ SaveFindResp(c, out) /\ InventoryOnly
            \/ SaveWriteResp(c, out) /\ InventoryOnly

SpecInventory == InitInventory /\ [][NextInventory]_vars

\* ================================================= snapshots of any store
\* The Inventory table holding any rows: up to MaxRows rows of two products,
\* several of one product included, in any order, each with a lastUpdated of
\* 0 (or none), 1 or 2.  The order form and the inventory list of a client
\* receive it.
SnapshotRows ==
    [productId : {"p1", "p2"}, stockLevel : 0 .. 2, lastUpdated : 0 .. 2]

SnapshotStores ==
    UNION {[1 .. n -> SnapshotRows] : n \in 0 .. MaxRows}

InitSnapshots ==
    /\ orders = << >>
    /\ orderItems = << >>
    /\ returns = << >>
    /\ returnItems = << >>
    /\ now = 0
    /\ \E rows \in SnapshotStores :
        inventory = [k \in DOMAIN rows |->
                        [id |-> RowId(k), productId |-> rows[k].productId,
                         stockLevel |-> rows[k].stockLevel,
                         lastUpdated |-> rows[k].lastUpdated]]
    /\ InitReturnIdle
    /\ InitBarcodeIdle
    /\ InitStatsIdle
    /\ ord = [c \in Clients |-> InitOrd]
    /\ osub = [c \in Clients |-> IdleOsub]
    /\ invForm = [c \in Clients |-> InitInvForm]
    /\ save = [c \in Clients |-> IdleSave]

NextSnapshots ==
    \/ \E c \in OrderClients : InventorySnapshot(c) /\ OrderOnly
    \/ \E c \in InventoryClients : InventoryListSnapshot(c) /\ InventoryOnly

SpecSnapshots == InitSnapshots /\ [][NextSnapshots]_vars

\* ==================================================== the till or the desk
\* Order.vue and Return.vue share no component state, and neither reads a
\* record kind that the other writes while it runs here.  A run of this
\* specification is a run of the till or a run of the return desk, each from
\* its own store.
OrderViewShown == \A c \in Clients : ord[c] # << >>

InitViews == InitOrder \/ InitReturn

NextViews ==
    \/ OrderViewShown /\ NextOrder
    \/ ~OrderViewShown /\ NextReturn

SpecViews == InitViews /\ [][NextViews]_vars

\* ======================================================= barcode validation
\* A text is the sequence of its characters.
DigitChars == <<"0", "1", "2", "3", "4", "5", "6", "7", "8", "9">>

\* /\d/ : an ASCII digit.
IsDigitChar(ch) == \E d \in DOMAIN DigitChars : DigitChars[d] = ch

\* Number(ch) of a digit character.
NumberOf(ch) == (CHOOSE d \in DOMAIN DigitChars : DigitChars[d] = ch) - 1

\* String.prototype.trim(): the white space at both ends removed.
RECURSIVE TrimStart(_)
TrimStart(t) == IF t # << >> /\ Head(t) = " " THEN TrimStart(Tail(t)) ELSE t

RECURSIVE TrimEnd(_)
TrimEnd(t) ==
    IF t # << >> /\ t[Len(t)] = " " THEN TrimEnd(SubSeq(t, 1, Len(t) - 1)) ELSE t

TrimText(t) == TrimEnd(TrimStart(t))

\* /^\d+$/.test(t)
OnlyDigits(t) == t # << >> /\ \A k \in DOMAIN t : IsDigitChar(t[k])

\* The loop `sum += digits[i] * (i % 2 === 0 ? onEven : onOdd)` from index i
\* (counted from 0) to the end of digits.
RECURSIVE WeightedSum(_, _, _, _)
WeightedSum(digits, i, onEven, onOdd) ==
    IF i >= Len(digits) THEN 0
    ELSE digits[i + 1] * (IF i % 2 = 0 THEN onEven ELSE onOdd)
            + WeightedSum(digits, i + 1, onEven, onOdd)

\* barcode.split('').map(Number)
DigitsOf(t) == [k \in DOMAIN t |-> NumberOf(t[k])]

\* digits.pop() taken, the sum formed, (10 - (sum % 10)) % 10 compared.
ChecksumMatches(t, onEven, onOdd) ==
    LET all == DigitsOf(t)
        checksum == all[Len(all)]
        digits == SubSeq(all, 1, Len(all) - 1)
        sum == WeightedSum(digits, 0, onEven, onOdd)
        calculatedChecksum == (10 - (sum % 10)) % 10
    IN  calculatedChecksum = checksum

isValidEAN8(t) == ChecksumMatches(t, 3, 1)

isValidUPCA(t) == ChecksumMatches(t, 3, 1)

\* isValidEAN13 with the weights of EAN-8.
isValidEAN13WeightedAsEAN8(t) == ChecksumMatches(t, 3, 1)

isValidEAN13(t) == ChecksumMatches(t, 1, 3)

ValidationResult(valid, error) == [valid |-> valid, error |-> error]

\* isValidBarcode without the test for digits.
isValidBarcodeAnyCharacter(t) ==
    LET cleanBarcode == TrimText(t)
    IN  IF TrimText(t) = << >> THEN ValidationResult(TRUE, "")
        ELSE IF Len(cleanBarcode) < 8 \/ Len(cleanBarcode) > 14
        THEN ValidationResult(FALSE, "Barcode must be between 8 and 14 digits")
        ELSE ValidationResult(TRUE, "")

isValidBarcode(t) ==
    LET cleanBarcode == TrimText(t)
    IN  IF TrimText(t) = << >> THEN ValidationResult(TRUE, "")
        ELSE IF Len(cleanBarcode) < 8 \/ Len(cleanBarcode) > 14
        THEN ValidationResult(FALSE, "Barcode must be between 8 and 14 digits")
        ELSE IF ~OnlyDigits(cleanBarcode)
        THEN ValidationResult(FALSE, "Barcode must contain only numbers")
        ELSE IF Len(cleanBarcode) = 8 /\ ~isValidEAN8(cleanBarcode)
        THEN ValidationResult(FALSE, "Invalid EAN-8 barcode checksum")
        ELSE IF Len(cleanBarcode) = 12 /\ ~isValidUPCA(cleanBarcode)
        THEN ValidationResult(FALSE, "Invalid UPC-A barcode checksum")
        ELSE IF Len(cleanBarcode) = 13 /\ ~isValidEAN13(cleanBarcode)
        THEN ValidationResult(FALSE, "Invalid EAN-13 barcode checksum")
        ELSE ValidationResult(TRUE, "")

\* ----------------------------------------------------- the barcode field
\* The texts given to isValidBarcode: of every length up to MaxBarcodeLength,
\* the leading characters of a fixed number, then FreeChars characters that
\* range over the digits, a letter and the blank; with or without a blank in
\* front.
MaxBarcodeLength == 15
FreeChars == 3

BarcodeChars == {DigitChars[d] : d \in DOMAIN DigitChars} \cup {"a", " "}

FixedDigits ==
    <<"4", "0", "1", "2", "3", "4", "5", "9", "7", "8", "0", "2", "6", "1", "3", "5">>

FreeTexts(n) == [1 .. n -> BarcodeChars]

BarcodeTexts ==
    {lead \o SubSeq(FixedDigits, 1, n - FreeChars) \o free :
        lead \in {<< >>, <<" ">>}, n \in FreeChars .. MaxBarcodeLength,
        free \in FreeTexts(FreeChars)}
    \cup UNION {FreeTexts(n) : n \in 0 .. FreeChars - 1}

InitBarcode ==
    /\ InitOrderStore
    /\ InitReturnIdle
    /\ InitOrderIdle
    /\ InitInventoryIdle
    /\ InitStatsIdle
    /\ barcode \in BarcodeTexts
    /\ barcodeValidation = << >>

\* Product.vue validateForm: const barcodeValidation = isValidBarcode(barcode.value)
ValidateBarcode ==
    /\ barcodeValidation = << >>
    /\ barcodeValidation' = << isValidBarcode(barcode) >>
    /\ UNCHANGED <<storeVars, returnVars, orderVars, inventoryVars, barcode, stats>>

NextBarcode == ValidateBarcode

SpecBarcode == InitBarcode /\ [][NextBarcode]_vars

\* ================================================================ Stats.vue
\* Amounts are in mills, times in milliseconds.  An Order as the statistics
\* read it: status and totalAmount may be null (<< >>), orderDate is a
\* timestamp.
MaxStatOrders == 2

HourMs == 60 * 60 * 1000

DayMs == 24 * HourMs

\* String.prototype.toLowerCase on the statuses of the model.
toLowerCase ==
    ("completed" :> "completed") @@ ("Completed" :> "completed")
        @@ ("COMPLETED" :> "completed") @@ ("pending" :> "pending")

\* The filter with === 'completed' on the status as stored.
isCompletedExactCase(order) == order.status = <<"completed">>

\* order.status?.toLowerCase() === 'completed'
isCompleted(order) ==
    order.status # << >> /\ toLowerCase[order.status[1]] = "completed"

completedOrders(st) == SelectSeq(st.orders, isCompleted)

\* reduce((sum, order) => sum + (order.totalAmount ?? 0), 0)
RECURSIVE AmountSum(_)
AmountSum(os) ==
    IF os = << >> THEN 0
    ELSE (IF Head(os).totalAmount = Null THEN 0 ELSE Head(os).totalAmount[1])
            + AmountSum(Tail(os))

totalSales(st) == AmountSum(completedOrders(st))

totalOrders(st) == Len(completedOrders(st))

\* The quotient as a fraction; `return 0` is the fraction 0/1.
averageOrderValue(st) ==
    IF Len(completedOrders(st)) = 0 THEN [num |-> 0, den |-> 1]
    ELSE [num |-> totalSales(st), den |-> Len(completedOrders(st))]

\* Date.prototype.getHours() in a zone `offset` milliseconds ahead of UTC.
getHours(t, offset) == ((t + offset) \div HourMs) % 24

\* new Date(y, m, d, 0, 0, 0) for the local date y-m-d of the instant t.
LocalMidnight(t, offset) == ((t + offset) \div DayMs) * DayMs - offset

\* new Date(selectedDate.value) of the date string of day d is midnight UTC.
startOfDay(st) == LocalMidnight(st.selectedDate[1] * DayMs, st.utcOffset)

endOfDay(st) == startOfDay(st) + 23 * HourMs + 59 * 60 * 1000 + 59 * 1000

\* The filter of chartData; with an empty date field both bounds are invalid
\* dates and every comparison is false.  (The sort that follows changes no
\* sum.)
InSelectedDay(st, order) ==
    /\ isCompleted(order)
    /\ order.orderDate # 0
    /\ st.selectedDate # << >>
    /\ order.orderDate >= startOfDay(st)
    /\ order.orderDate <= endOfDay(st)

\* salesByHour.get(hour) after the forEach over the orders os.
RECURSIVE HourSum(_, _, _)
HourSum(os, hour, offset) ==
    IF os = << >> THEN 0
    ELSE (IF /\ Head(os).orderDate # 0
             /\ Truthy(Head(os).totalAmount)
             /\ getHours(Head(os).orderDate, offset) = hour
          THEN Head(os).totalAmount[1] ELSE 0)
            + HourSum(Tail(os), hour, offset)

salesByHour(st) ==
    [hour \in 0 .. 23 |->
        HourSum(SelectSeq(st.orders, LAMBDA o : InSelectedDay(st, o)), hour, st.utcOffset)]

\* Math.round(value * 100) / 100
MathRound2(value) == ((value + 5) \div 10) * 10

\* `${String(i).padStart(2, '0')}:00`
HourLabel(i) == <<DigitChars[(i \div 10) + 1], DigitChars[(i % 10) + 1], ":", "0", "0">>

\* chartData that leaves out the hours without sales.
RECURSIVE SoldHoursFrom(_, _)
SoldHoursFrom(st, hour) ==
    IF hour > 23 THEN << >>
    ELSE (IF salesByHour(st)[hour] # 0 THEN <<hour>> ELSE << >>)
            \o SoldHoursFrom(st, hour + 1)

chartDataOmitsEmptyHours(st) ==
    [labels |-> [i \in DOMAIN SoldHoursFrom(st, 0) |-> HourLabel(SoldHoursFrom(st, 0)[i])],
     data |-> [i \in DOMAIN SoldHoursFrom(st, 0) |->
                    MathRound2(salesByHour(st)[SoldHoursFrom(st, 0)[i]])]]

chartData(st) ==
    [labels |-> [i \in 1 .. 24 |-> HourLabel(i - 1)],
     data |-> [i \in 1 .. 24 |-> MathRound2(salesByHour(st)[i - 1])]]

\* ------------------------------------------------ the sparkline component
\* bucketKey `YYYY-MM-DD HH:00`: the local date and hour of the instant t.
bucketKey(t, offset) == (t + offset) \div HourMs

\* The orders that sparklineData adds to a bucket.
Bucketed(st) ==
    SelectSeq(st.orders,
              LAMBDA o : isCompleted(o) /\ o.orderDate # 0 /\ Truthy(o.totalAmount))

RECURSIVE BucketSum(_, _, _)
BucketSum(os, key, offset) ==
    IF os = << >> THEN 0
    ELSE (IF bucketKey(Head(os).orderDate, offset) = key
          THEN Head(os).totalAmount[1] ELSE 0)
            + BucketSum(Tail(os), key, offset)

\* Array.from(salesByBucket.values()): the buckets in the order of their first
\* order, the orders being sorted by orderDate.
RECURSIVE BucketValues(_, _)
BucketValues(st, keys) ==
    IF keys = {} THEN << >>
    ELSE LET first == CHOOSE k \in keys : \A j \in keys : k <= j
         IN  <<MathRound2(BucketSum(Bucketed(st), first, st.utcOffset))>>
                \o BucketValues(st, keys \ {first})

sparklineData(st) ==
    IF SelectSeq(st.orders, LAMBDA o : isCompleted(o) /\ o.orderDate # 0) = << >>
    THEN << >>
    ELSE BucketValues(st, {bucketKey(Bucketed(st)[k].orderDate, st.utcOffset) :
                                k \in DOMAIN Bucketed(st)})

\* ------------------------------------------------------------ totalProfit
\* latestInventoryByProduct.get(p)?.purchasePrice ?? 0, the map being built by
\* the loop of listInventory.
purchasePriceOf(st, p) ==
    LET k == IndexOfProduct(latestByProduct(st.inventory), p)
    IN  IF k = 0 THEN 0
        ELSE IF latestByProduct(st.inventory)[k].purchasePrice = Null THEN 0
        ELSE latestByProduct(st.inventory)[k].purchasePrice[1]

\* relevantOrderItems: completedOrderIds.has(item.orderId)
relevantOrderItems(st) ==
    SelectSeq(st.orderItems,
              LAMBDA item : \E k \in DOMAIN completedOrders(st) :
                                completedOrders(st)[k].id = item.orderId)

\* totalProfitAmount += (unitPrice - purchasePrice) * quantity over the items.
RECURSIVE ProfitSum(_, _)
ProfitSum(st, items) ==
    IF items = << >> THEN 0
    ELSE (Head(items).unitPrice - purchasePriceOf(st, Head(items).productId))
                * Head(items).quantity
            + ProfitSum(st, Tail(items))

\* totalProfit over the items of every order, completed or not.
totalProfitOfEveryOrder(st) ==
    IF completedOrders(st) = << >> THEN 0 ELSE ProfitSum(st, st.orderItems)

totalProfit(st) ==
    IF completedOrders(st) = << >> THEN 0 ELSE ProfitSum(st, relevantOrderItems(st))

\* --------------------------------------------------- the statistics page
StatStatuses == {<< >>, <<"completed">>, <<"Completed">>, <<"COMPLETED">>, <<"pending">>}

StatAmounts == {Null, <<0>>, <<1004>>, <<2500>>}

\* Day 2 at 10:15 and at 23:59:59.500 UTC, day 1 at 22:00 UTC, and 0.
StatDates ==
    {2 * DayMs + 10 * HourMs + 15 * 60 * 1000,
     2 * DayMs + 23 * HourMs + 59 * 60 * 1000 + 59 * 1000 + 500,
     DayMs + 22 * HourMs,
     0}

StatOrders == [status : StatStatuses, totalAmount : StatAmounts, orderDate : StatDates]

StatOrderSeqs == UNION {[1 .. n -> StatOrders] : n \in 0 .. MaxStatOrders}

\* The zone of the browser: behind UTC, UTC, ahead of UTC.
UtcOffsets == {-5 * HourMs, 0, 2 * HourMs}

\* The date field: empty, or the date of day 1 or day 2.
SelectedDates == {<< >>, <<1>>, <<2>>}

InitStats ==
    /\ orders \in StatOrderSeqs
    /\ orderItems = << >>
    /\ returns = << >>
    /\ returnItems = << >>
    /\ inventory = << >>
    /\ now = 0
    /\ InitReturnIdle
    /\ InitOrderIdle
    /\ InitInventoryIdle
    /\ InitBarcodeIdle
    /\ stats \in [orders : {<< >>}, orderItems : {<< >>}, inventory : {<< >>},
                  selectedDate : {<<2>>}, utcOffset : UtcOffsets]

\* listOrders: observeQuery delivers the Order records.
StatsOrdersSnapshot ==
    /\ stats.orders # orders
    /\ stats' = [stats EXCEPT !.orders = orders]
    /\ UNCHANGED <<storeVars, returnVars, orderVars, inventoryVars, barcodeVars>>

\* v-model="selectedDate" of the date picker.
SelectDate(d) ==
    /\ stats.selectedDate # d
    /\ stats' = [stats EXCEPT !.selectedDate = d]
    /\ UNCHANGED <<storeVars, returnVars, orderVars, inventoryVars, barcodeVars>>

NextStats ==
    \/ StatsOrdersSnapshot
    \/ \E d \in SelectedDates : SelectDate(d)

SpecStats == InitStats /\ [][NextStats]_vars

\* ------------------------------------------- the statistics page: profit
\* The store holds up to two orders, up to MaxProfitItems order items of them
\* and up to MaxProfitRows stock rows of two products, with or without a
\* purchase price; the page receives the three lists one by one, in any order.
MaxProfitItems == 2
MaxProfitRows == 2

ProfitOrder(id, status) ==
    [id |-> id, status |-> status, totalAmount |-> <<2500>>, orderDate |-> 2 * DayMs]

ProfitOrderLists ==
    {<< >>}
        \cup {<<ProfitOrder("o1", s)>> : s \in {<< >>, <<"completed">>, <<"Completed">>, <<"pending">>}}
        \cup {<<ProfitOrder("o1", s), ProfitOrder("o2", t)>> :
                s \in {<< >>, <<"completed">>, <<"Completed">>, <<"pending">>},
                t \in {<<"completed">>, <<"pending">>}}

ProfitItems ==
    [orderId : {"o1", "o2"}, productId : {"p1", "p2"}, quantity : 1 .. 2, unitPrice : {1004}]

ProfitRows ==
    [productId : {"p1", "p2"}, stockLevel : {1}, purchasePrice : {Null, <<600>>, <<1500>>},
     lastUpdated : 0 .. 1]

InitProfit ==
    /\ orders \in ProfitOrderLists
    /\ \E items \in UNION {[1 .. n -> ProfitItems] : n \in 0 .. MaxProfitItems} :
        orderItems = [k \in DOMAIN items |->
                        [id |-> k, orderId |-> items[k].orderId,
                         productId |-> items[k].productId, quantity |-> items[k].quantity,
                         unitPrice |-> items[k].unitPrice,
                         subtotal |-> ToFixed2(items[k].unitPrice * items[k].quantity)]]
    /\ \E rows \in UNION {[1 .. n -> ProfitRows] : n \in 0 .. MaxProfitRows} :
        inventory = [k \in DOMAIN rows |->
                        [id |-> RowId(k), productId |-> rows[k].productId,
                         stockLevel |-> rows[k].stockLevel,
                         purchasePrice |-> rows[k].purchasePrice,
                         lastUpdated |-> rows[k].lastUpdated]]
    /\ returns = << >>
    /\ returnItems = << >>
    /\ now = 0
    /\ InitReturnIdle
    /\ InitOrderIdle
    /\ InitInventoryIdle
    /\ InitBarcodeIdle
    /\ stats = [orders |-> << >>, orderItems |-> << >>, inventory |-> << >>,
                selectedDate |-> <<2>>, utcOffset |-> 0]

\* listOrderItems: observeQuery delivers the OrderItem records.
StatsOrderItemsSnapshot ==
    /\ stats.orderItems # orderItems
    /\ stats' = [stats EXCEPT !.orderItems = orderItems]
    /\ UNCHANGED <<storeVars, returnVars, orderVars, inventoryVars, barcodeVars>>

\* listInventory: observeQuery delivers the Inventory rows.
StatsInventorySnapshot ==
    /\ stats.inventory # inventory
    /\ stats' = [stats EXCEPT !.inventory = inventory]
    /\ UNCHANGED <<storeVars, returnVars, orderVars, inventoryVars, barcodeVars>>

NextProfit ==
    \/ StatsOrdersSnapshot
    \/ StatsOrderItemsSnapshot
    \/ StatsInventorySnapshot

SpecProfit == InitProfit /\ [][NextProfit]_vars

\* ================================================================== claims
\* The quantityReturned of the records of `items` that reference order item id.
SumReturned(items, id) ==
    LET hit == {k \in DOMAIN items : items[k].orderItemId = id}
        sum[S \in SUBSET hit] ==
            IF S = {} THEN 0
            ELSE LET k == CHOOSE x \in S : TRUE
                 IN  items[k].quantityReturned + sum[S \ {k}]
    IN  sum[hit]

\* C1: for every OrderItem, the quantityReturned of the stored ReturnItems that
\* reference it sum to at most its quantity.
NoOverReturn ==
    \A i \in DOMAIN orderItems :
        SumReturned(returnItems, orderItems[i].id) <= orderItems[i].quantity

StoreWritten ==
    <<orders, orderItems, returns, returnItems, inventory>>' #
        <<orders, orderItems, returns, returnItems, inventory>>

\* Some line asks for more than its maxReturnableQuantity.
ExceedsMax(r) ==
    \E i \in DOMAIN r.returnLines :
        /\ r.returnLines[i].quantityToReturn # Null
        /\ NumGT(r.returnLines[i].quantityToReturn, r.returnLines[i].maxReturnableQuantity)

\* C2: submitReturn on a form with a line whose quantityToReturn exceeds its
\* maxReturnableQuantity writes nothing to the store, starts no call and leaves
\* the lines as they are, so the same request repeated is rejected again.
OverMaxRejected ==
    [][\A c \in ReturnClients :
        (sub[c].pc = "idle" /\ search[c] = << >> /\ ExceedsMax(ret[c]))
            => /\ ~StoreWritten
               /\ sub'[c].pc = "idle"
               /\ ret'[c].returnLines = ret[c].returnLines
               /\ ret'[c].formError # ""]_vars

\* C2 witness: a rejected over-quantity request, twice the only line's maximum.
OverMaxRejectedWitness ==
    /\ ExceedsMax(ret[1])
    /\ ret[1].formError = "Cannot return more than the maximum returnable"
    /\ returns = << >> /\ returnItems = << >>
    /\ sub[1].pc = "idle"

\* A searchOrder call of client c ends in this step by building the lines.
SearchSucceeds(c) ==
    \E j \in DOMAIN search[c] :
        /\ SearchReturnsResp(c, j, "ok") \/ SearchReturnItemsResp(c, j, "ok")
        /\ Len(search'[c]) < Len(search[c])

\* The lines of r are, for the fetched order items and return items, one line
\* per item with something left to return, carrying what is left.
LinesMatchFetched(r) ==
    /\ \A k \in DOMAIN r.orderItems :
        LET left == r.orderItems[k].quantity
                        - SumReturned(r.existingReturnItems, r.orderItems[k].id)
            mine == {i \in DOMAIN r.returnLines :
                        r.returnLines[i].orderItemId = r.orderItems[k].id}
        IN  /\ Cardinality(mine) = (IF left > 0 THEN 1 ELSE 0)
            /\ \A i \in mine : r.returnLines[i].maxReturnableQuantity = left
    /\ \A i \in DOMAIN r.returnLines :
        \E k \in DOMAIN r.orderItems : r.orderItems[k].id = r.returnLines[i].orderItemId

\* C9: when searchOrder completes successfully the form holds exactly one line
\* for each fetched OrderItem whose quantity minus the quantityReturned of the
\* fetched ReturnItems is positive, with that value as maxReturnableQuantity,
\* and no line for an item with nothing left.
SearchBuildsReturnable ==
    [][\A c \in ReturnClients :
        SearchSucceeds(c) => ret'[c].orderFound /\ LinesMatchFetched(ret'[c])]_vars

\* C9 witness: a completed search that left out a fully returned item and shows
\* a partly returned one with what is left.
SearchBuildsReturnableWitness ==
    /\ ret[1].orderFound /\ search[1] = << >>
    /\ Len(ret[1].orderItems) = 2
    /\ Len(ret[1].returnLines) = 1
    /\ ret[1].returnLines[1].maxReturnableQuantity < ret[1].returnLines[1].originalQuantity
    /\ LinesMatchFetched(ret[1])

\* What the validation asks of a form (the lines with a quantity are those
\* whose quantityToReturn is greater than 0).
ReturnAcceptable(r) ==
    /\ r.selectedOrder # << >>
    /\ \E i \in DOMAIN r.returnLines :
        /\ r.returnLines[i].quantityToReturn # Null
        /\ NumGT(r.returnLines[i].quantityToReturn, 0)
    /\ \A i \in DOMAIN r.returnLines :
        (/\ r.returnLines[i].quantityToReturn # Null
         /\ NumGT(r.returnLines[i].quantityToReturn, 0))
            => /\ IsInteger(r.returnLines[i].quantityToReturn)
               /\ r.returnLines[i].quantityToReturn[1] <= r.returnLines[i].maxReturnableQuantity
               /\ r.returnLines[i].condition # ""
    /\ totalRefundAmount(r) > 0

\* C10: the store is written only by a submitReturn in flight, and a
\* submitReturn on a form that fails one of the checks writes nothing, starts
\* no call and changes formError only.
SubmitReturnGuarded ==
    [][/\ StoreWritten => \E c \in ReturnClients : sub[c].pc # "idle"
       /\ \A c \in ReturnClients :
            (sub[c].pc = "idle" /\ search[c] = << >> /\ ~ReturnAcceptable(ret[c]))
                => /\ ~StoreWritten
                   /\ sub'[c].pc = "idle"
                   /\ search' = search
                   /\ [ret'[c] EXCEPT !.formError = ""] = [ret[c] EXCEPT !.formError = ""]
                   /\ ret'[c].formError # ""]_vars

\* C10 witness: a form with a selected order and a valid quantity, rejected for
\* its refund total of 0.
SubmitReturnGuardedWitness ==
    /\ ret[1].selectedOrder # << >>
    /\ ret[1].formError = "Total refund amount must be greater than 0"
    /\ sub[1].pc = "idle"
    /\ returns = << >>

\* C5: every stored Inventory row holds a stockLevel that is a non-negative
\* integer.
StockLevelsNonNegative ==
    \A k \in DOMAIN inventory :
        inventory[k].stockLevel \in Nat

\* The stock a component shows for product p: that of the row of p in its
\* collapsed snapshot, 0 without one.
DisplayedStock(o, p) ==
    LET rows == {k \in DOMAIN o.inventoryItems : o.inventoryItems[k].productId = p}
    IN  IF rows = {} THEN 0 ELSE o.inventoryItems[CHOOSE k \in rows : TRUE].stockLevel

\* The rows the store holds for product p.
StoreRows(rows, p) == {rows[k] : k \in {j \in DOMAIN rows : rows[j].productId = p}}

\* C3 as stated: when the inventory update of a line succeeds in a submission
\* whose writes all succeeded, and the line's quantity q was at most the stock
\* s displayed when the form was validated, the product's row holds s - q.
StockLeftFromValidatedStock ==
    [][\A c \in Clients :
        (/\ osub[c].pc = "inv" /\ osub[c].allOk
         /\ InvUpdateResp(c, "ok")
         /\ osub[c].prepared[osub[c].index].quantity <= osub[c].shown[osub[c].index])
            => \A row \in StoreRows(inventory', osub[c].prepared[osub[c].index].productId) :
                    row.stockLevel =
                        osub[c].shown[osub[c].index] - osub[c].prepared[osub[c].index].quantity]_vars

\* C3 amended: the update of a line is computed when the line's OrderItem.create
\* has returned, from the stock s the component displays then: it carries
\* max(0, s - q), the id of the displayed row and the time of the call, and when
\* it succeeds the row holds the stockLevel and lastUpdated it carries.
StockLeftFromCachedStock ==
    [][\A c \in Clients :
        /\ (osub[c].pc = "item" /\ osub'[c].pc = "inv")
            => LET item == osub[c].prepared[osub[c].index]
                   left == DisplayedStock(ord[c], item.productId) - item.quantity
               IN  /\ osub'[c].arg[1].stockLevel = (IF left > 0 THEN left ELSE 0)
                   /\ osub'[c].arg[1].lastUpdated = now
                   /\ \E row \in StoreRows(ord[c].inventoryItems, item.productId) :
                        row.id = osub'[c].arg[1].id
        /\ (osub[c].pc = "inv" /\ InvUpdateResp(c, "ok"))
            => \E k \in DOMAIN inventory' :
                /\ inventory'[k].id = osub[c].arg[1].id
                /\ inventory'[k].stockLevel = osub[c].arg[1].stockLevel
                /\ inventory'[k].lastUpdated = osub[c].arg[1].lastUpdated]_vars

\* C3 witness: one order of 2 units of p1 out of a stock of 2, placed at time 1,
\* all of its writes done: the row holds 0 and the time of the update.
StockLeftFromCachedStockWitness ==
    /\ Len(orders) = 1 /\ Len(orderItems) = 1
    /\ orderItems[1].productId = "p1" /\ orderItems[1].quantity = 2
    /\ inventory[1].stockLevel = 0 /\ inventory[1].lastUpdated = 1
    /\ \A c \in Clients : osub[c].pc = "idle" /\ ord[c].formError = << >>

\* What validate asks of an order form.
OrderAcceptable(o) ==
    /\ \E i \in DOMAIN o.lines : o.lines[i].productId # "" /\ o.lines[i].quantity # Null
    /\ \A i \in DOMAIN o.lines :
        /\ o.lines[i].productId # ""
        /\ \E k \in DOMAIN Products :
            Products[k].productId = o.lines[i].productId /\ Products[k].isSellable
        /\ \A j \in DOMAIN o.lines : j # i => o.lines[j].productId # o.lines[i].productId
        /\ o.lines[i].quantity # Null
        /\ IsInteger(o.lines[i].quantity)
        /\ o.lines[i].quantity[1] >= 1
        /\ o.lines[i].quantity[1] <= DisplayedStock(o, o.lines[i].productId)
    /\ orderTotal(o) > 0

\* C4: the store is written only by a submitOrder in flight, and submitOrder
\* on a form that fails one of the checks writes nothing, starts no call and
\* sets formError.
SubmitOrderGuarded ==
    [][/\ StoreWritten => \E c \in OrderClients : osub[c].pc # "idle"
       /\ \A c \in OrderClients :
            (osub[c].pc = "idle" /\ ~OrderAcceptable(ord[c]))
                => /\ ~StoreWritten
                   /\ osub'[c].pc = "idle"
                   /\ ord'[c].lines = ord[c].lines
                   /\ ord'[c].formError # << >>]_vars

\* C4 witness: a form whose only line passes every line check, rejected for
\* its total of 0.00.
SubmitOrderGuardedWitness ==
    /\ ord[1].lines = <<[productId |-> "p0", quantity |-> <<1>>]>>
    /\ ord[1].formError = <<"Order total must be greater than 0.">>
    /\ osub[1].pc = "idle"
    /\ orders = << >>

\* C6: an Inventory.update that succeeds puts the values it carries into the
\* row whatever the row has come to hold since the client validated, and
\* nothing is reported to the client.
UpdatesOverwrite ==
    [][\A c \in Clients :
        (osub[c].pc = "inv" /\ InvUpdateResp(c, "ok"))
            => /\ \A k \in DOMAIN inventory' :
                    inventory'[k].id = osub[c].arg[1].id
                        => /\ inventory'[k].stockLevel = osub[c].arg[1].stockLevel
                           /\ inventory'[k].lastUpdated = osub[c].arg[1].lastUpdated
               /\ ord'[c].formError = << >>]_vars

\* C6 witness: two tills have validated against the same stock of 2, both have
\* committed their Order and their OrderItem without an error, 3 or more units
\* are sold, the first till has written what it computed and the update of the
\* second, computed from the stock of 2 as well, is on its way to replace it.
UpdatesOverwriteWitness ==
    /\ osub[1].pc = "inv" /\ osub[2].pc = "inv"
    /\ osub[1].shown = <<2>> /\ osub[2].shown = <<2>>
    /\ osub[1].allOk /\ osub[2].allOk
    /\ Len(orders) = 2 /\ Len(orderItems) = 2
    /\ orderItems[1].quantity + orderItems[2].quantity > 2
    /\ osub[1].arg[1].stockLevel = 2 - osub[1].prepared[1].quantity
    /\ osub[2].arg[1].stockLevel = 2 - osub[2].prepared[1].quantity
    /\ osub[1].arg[1].id = osub[2].arg[1].id

\* s is the beginning of t.
IsPrefix(s, t) == Len(s) <= Len(t) /\ SubSeq(t, 1, Len(s)) = s

ListPrice(p) == Products[CHOOSE k \in DOMAIN Products : Products[k].productId = p].listPrice

\* The amounts f[i] added up.
SumOf(f) ==
    LET sum[S \in SUBSET DOMAIN f] ==
            IF S = {} THEN 0
            ELSE LET k == CHOOSE x \in S : TRUE IN f[k] + sum[S \ {k}]
    IN  sum[DOMAIN f]

\* C8: every OrderItem holds as subtotal its unitPrice times its quantity
\* rounded to 2 decimals, its unitPrice being the product's list price, and
\* the totalAmount of the Order of a submission is the sum of these rounded
\* amounts over the lines of the form.
TotalIsSumOfRoundedLines ==
    /\ \A k \in DOMAIN orderItems :
        /\ orderItems[k].unitPrice = ListPrice(orderItems[k].productId)
        /\ orderItems[k].subtotal = ToFixed2(orderItems[k].unitPrice * orderItems[k].quantity)
    /\ \A c \in OrderClients :
        LET amounts == [i \in DOMAIN ord[c].lines |->
                            ToFixed2(ListPrice(ord[c].lines[i].productId)
                                        * ord[c].lines[i].quantity[1])]
        IN  /\ osub[c].pc = "order" => osub[c].arg[1].totalAmount = SumOf(amounts)
            /\ osub[c].pc \in {"item", "inv"} =>
                \E k \in DOMAIN orders :
                    /\ orders[k].id = osub[c].orderId
                    /\ orders[k].totalAmount = SumOf(amounts)

\* C8 witness: an order of 1.004 kr and 2.004 kr is stored with the total 3.00,
\* where the unrounded sum 3.008 rounds to 3.01, and its first OrderItem with
\* the subtotal 1.00.
TotalIsSumOfRoundedLinesWitness ==
    /\ osub[1].pc = "inv" /\ osub[1].index = 1
    /\ Len(osub[1].prepared) = 2
    /\ orders[Len(orders)].totalAmount = 3000
    /\ ToFixed2(SumOf([i \in DOMAIN osub[1].prepared |->
            osub[1].prepared[i].unitPrice * osub[1].prepared[i].quantity])) = 3010
    /\ orderItems[Len(orderItems)].subtotal = 1000

\* The stored ReturnItems of the Return with this id, in the order of creation.
ItemsOfReturn(items, id) == ListByReturnId(items, id)

\* The lines that the submitReturn in flight of client c found included
\* (quantityToReturn > 0) when it was called, in form order.
SubmittedLines(c) ==
    [k \in DOMAIN sub[c].idxs |-> ret[c].returnLines[sub[c].idxs[k]]]

ReturnLeavesInventory == [][inventory' = inventory]_vars

\* C12 witness: both units of p1 and the unit of p2 have been returned, and the
\* stock rows still hold the 3 and 0 that the sale left.
ReturnLeavesInventoryWitness ==
    /\ Len(returnItems) = 2
    /\ returnItems[1].productId = "p1" /\ returnItems[1].quantityReturned = 2
    /\ returnItems[2].productId = "p2" /\ returnItems[2].quantityReturned = 1
    /\ \A c \in ReturnClients : sub[c].pc = "idle" /\ ~ret[c].submitting
    /\ inventory[1].productId = "p1" /\ inventory[1].stockLevel = 3
    /\ inventory[2].productId = "p2" /\ inventory[2].stockLevel = 0

\* The step that ends a submitReturn of client c all of whose creates were
\* stored: the header and one ReturnItem per submitted line.
SuccessfulSubmitEnds(c) ==
    /\ sub[c].pc \in {"item", "refresh"}
    /\ sub'[c].pc = "idle"
    /\ Len(ItemsOfReturn(returnItems', sub[c].returnId)) = Len(sub[c].lines)

\* C13: when a submitReturn all of whose writes succeeded ends, every line of
\* the form has quantityToReturn null and a maxReturnableQuantity equal to its
\* OrderItem's quantity minus every stored quantityReturned for it, the
\* ReturnItems just created included, and no line is left for an OrderItem
\* that is fully returned.
RefreshedBeforeSubmitEnds ==
    [][\A c \in ReturnClients :
        SuccessfulSubmitEnds(c) =>
            \A i \in DOMAIN ret'[c].returnLines :
                LET line == ret'[c].returnLines[i]
                IN  /\ line.quantityToReturn = Null
                    /\ \E k \in DOMAIN orderItems :
                        /\ orderItems[k].id = line.orderItemId
                        /\ line.maxReturnableQuantity =
                            orderItems[k].quantity - SumReturned(returnItems', line.orderItemId)
                        /\ line.maxReturnableQuantity > 0
       ]_vars

\* The stored OrderItems of the Order with this id.
ItemsOfOrder(items, id) == ListByOrderId(items, id)

\* C14: a submission has one store call outstanding at a time and issues them
\* as a chain: Order.create is answered before the OrderItem.create of line 1
\* is called, the OrderItem.create of a line is answered before the
\* Inventory.update of that line is called, and that update is answered before
\* the OrderItem.create of the next line of the form is called; each record is
\* written by the answer of its own call only.
OrderWritesAreAChain ==
    [][\A c \in OrderClients :
        LET s == osub[c]
            t == osub'[c]
            stored == Len(ItemsOfOrder(orderItems, s.orderId))
        IN  /\ s.pc \in {"idle", "order", "item", "inv"}
            /\ s.pc # "idle" => Len(s.arg) = 1
            /\ s.pc \in {"item", "inv"} =>
                /\ \E k \in DOMAIN orders : orders[k].id = s.orderId
                /\ s.index \in DOMAIN ord[c].lines
                /\ s.prepared[s.index].productId = ord[c].lines[s.index].productId
            /\ s.pc = "item" =>
                /\ s.arg[1].orderId = s.orderId
                /\ s.arg[1].productId = ord[c].lines[s.index].productId
                /\ stored <= s.index - 1
                /\ s.allOk => stored = s.index - 1
            /\ s.pc = "inv" =>
                /\ stored <= s.index
                /\ s.allOk => stored = s.index
                /\ \E k \in DOMAIN inventory :
                    /\ inventory[k].id = s.arg[1].id
                    /\ inventory[k].productId = ord[c].lines[s.index].productId
            /\ t # s =>
                CASE s.pc = "idle" -> t.pc = "order"
                  [] s.pc = "order" -> t.pc = "idle" \/ (t.pc = "item" /\ t.index = 1)
                  [] s.pc = "item" ->
                        \/ t.pc = "idle"
                        \/ t.pc = "inv" /\ t.index = s.index
                        \/ t.pc = "item" /\ t.index = s.index + 1
                  [] s.pc = "inv" -> t.pc = "idle" \/ (t.pc = "item" /\ t.index = s.index + 1)
            /\ orders' # orders =>
                s.pc = "order" /\ orderItems' = orderItems /\ inventory' = inventory
            /\ orderItems' # orderItems =>
                s.pc = "item" /\ orders' = orders /\ inventory' = inventory
            /\ inventory' # inventory =>
                s.pc = "inv" /\ orders' = orders /\ orderItems' = orderItems
       ]_vars

\* C14 witness: the update of line 2 is outstanding; the Order, the OrderItems
\* of lines 1 and 2 and the stock of line 1 (2 - 1) are already stored.
OrderWritesAreAChainWitness ==
    /\ osub[1].pc = "inv" /\ osub[1].index = 2 /\ osub[1].allOk
    /\ Len(orders) = 1 /\ Len(orderItems) = 2
    /\ orderItems[1].productId = "p1" /\ orderItems[1].quantity = 1
    /\ orderItems[2].productId = "p2"
    /\ inventory[1].productId = "p1" /\ inventory[1].stockLevel = 1
    /\ inventory[2].productId = "p2" /\ inventory[2].stockLevel = 1

\* The submitting flag of each form of client c is true exactly while a
\* submission of that form is in flight.
FlagsFollowFlights(r, s, o, t) ==
    /\ r.submitting <=> s.pc # "idle"
    /\ o # << >> => (o.submitting <=> t.pc # "idle")

\* C15: in each client the submitting flag of a form is true exactly while a
\* submission of that form is in flight, so the submit button (disabled while
\* submitting, the only caller of submitOrder and submitReturn) cannot start a
\* second submission before the first has ended, and the flag is false again
\* when the flow has ended, whether it succeeded or failed; a submission
\* starts only with the flag false, and an Order or Return is stored only by
\* the one submission in flight, one record per submission.
SubmittingWhileInFlight ==
    [][\A c \in Clients :
        /\ FlagsFollowFlights(ret[c], sub[c], ord[c], osub[c])
        /\ FlagsFollowFlights(ret'[c], sub'[c], ord'[c], osub'[c])
        /\ (sub[c].pc # "create" /\ sub'[c].pc = "create") =>
                ~ret[c].submitting /\ sub[c].pc = "idle"
        /\ (ord[c] # << >> /\ osub[c].pc # "order" /\ osub'[c].pc = "order") =>
                ~ord[c].submitting /\ osub[c].pc = "idle"
        /\ (c \in ReturnClients /\ returns' # returns) =>
                /\ ret[c].submitting /\ sub[c].pc = "create" /\ sub'[c].pc # "create"
                /\ Len(returns') = Len(returns) + 1
        /\ (c \in OrderClients /\ orders' # orders) =>
                /\ ord[c].submitting /\ osub[c].pc = "order" /\ osub'[c].pc # "order"
                /\ Len(orders') = Len(orders) + 1
       ]_vars

\* C15 witness: a submission of the till has failed at its Inventory.update,
\* after its Order and OrderItem were stored, and the flag is false again.
SubmittingWhileInFlightWitness ==
    /\ OrderViewShown
    /\ osub[1].pc = "idle" /\ ~ord[1].submitting
    /\ ord[1].formError = <<"Network error">>
    /\ Len(orders) = 1 /\ Len(orderItems) = 1
    /\ inventory[1].stockLevel = 2 /\ inventory[2].stockLevel = 1

\* The value of a digit character.
CharValue ==
    ("0" :> 0) @@ ("1" :> 1) @@ ("2" :> 2) @@ ("3" :> 3) @@ ("4" :> 4)
        @@ ("5" :> 5) @@ ("6" :> 6) @@ ("7" :> 7) @@ ("8" :> 8) @@ ("9" :> 9)

IsDigitOnly(t) == t # << >> /\ \A k \in DOMAIN t : t[k] \in DOMAIN CharValue

\* The check digit stated for a digit-only text: the payload (all but the last
\* digit) weighted by position counted from 0.
StatedCheckDigit(t, onEven, onOdd) ==
    LET weighted == [k \in 1 .. Len(t) - 1 |->
                        CharValue[t[k]] * (IF (k - 1) % 2 = 0 THEN onEven ELSE onOdd)]
    IN  (10 - (SumOf(weighted) % 10)) % 10

\* C16: a digit-only text of length 8, 12 or 13 is valid iff its last digit is
\* (10 - sum % 10) % 10, the payload digits weighted 3 on even and 1 on odd
\* index for length 8 and 12, and 1 on even and 3 on odd index for length 13;
\* 40123455 is valid, 40123456 is not.
ChecksumDecides ==
    barcodeValidation # << >> =>
        /\ (IsDigitOnly(barcode) /\ Len(barcode) \in {8, 12}) =>
            (barcodeValidation[1].valid
                <=> CharValue[barcode[Len(barcode)]] = StatedCheckDigit(barcode, 3, 1))
        /\ (IsDigitOnly(barcode) /\ Len(barcode) = 13) =>
            (barcodeValidation[1].valid
                <=> CharValue[barcode[Len(barcode)]] = StatedCheckDigit(barcode, 1, 3))
        /\ barcode = <<"4", "0", "1", "2", "3", "4", "5", "5">> => barcodeValidation[1].valid
        /\ barcode = <<"4", "0", "1", "2", "3", "4", "5", "6">> => ~barcodeValidation[1].valid

\* C16 witness: the EAN-13 text 4012345978100 has been found valid; with the
\* weights of EAN-8 its check digit would be 4.
ChecksumDecidesWitness ==
    /\ barcode = <<"4", "0", "1", "2", "3", "4", "5", "9", "7", "8", "1", "0", "0">>
    /\ barcodeValidation = << ValidationResult(TRUE, "") >>
    /\ StatedCheckDigit(barcode, 1, 3) = 0
    /\ StatedCheckDigit(barcode, 3, 1) = 4

\* The text without the blanks at its ends, by the positions of its first and
\* last character that is not a blank.
Trimmed(t) ==
    LET inked == {k \in DOMAIN t : t[k] # " "}
    IN  IF inked = {} THEN << >>
        ELSE SubSeq(t, CHOOSE k \in inked : \A j \in inked : k <= j,
                       CHOOSE k \in inked : \A j \in inked : k >= j)

\* C17: an empty or blank text is valid with an empty error; a text whose
\* trimmed form is shorter than 8 or longer than 14 characters or holds a
\* character that is not a digit is invalid with a non-empty error; a
\* digit-only text of length 9, 10, 11 or 14 is valid whatever its digits; the
\* result is the value of isValidBarcode at the text and nothing else.
FormatDecides ==
    barcodeValidation # << >> =>
        LET result == barcodeValidation[1]
        IN  /\ Trimmed(barcode) = << >> => result = [valid |-> TRUE, error |-> ""]
            /\ ( /\ Trimmed(barcode) # << >>
                 /\ \/ Len(Trimmed(barcode)) < 8
                    \/ Len(Trimmed(barcode)) > 14
                    \/ ~IsDigitOnly(Trimmed(barcode)) ) =>
                        ~result.valid /\ result.error # ""
            /\ (IsDigitOnly(barcode) /\ Len(barcode) \in {9, 10, 11, 14}) =>
                    result = [valid |-> TRUE, error |-> ""]
            /\ result = isValidBarcode(barcode)

\* C17 witness: a text of 9 characters with a letter in it has been found
\* invalid for its characters.
FormatDecidesWitness ==
    /\ Len(barcode) = 9
    /\ \E k \in DOMAIN barcode : barcode[k] = "a"
    /\ barcode[1] # " " /\ barcode[9] # " "
    /\ barcodeValidation = << ValidationResult(FALSE, "Barcode must contain only numbers") >>

\* The orders whose status is 'completed' in some spelling of its letters.
StatedCompleted(os) ==
    {k \in DOMAIN os : os[k].status \in {<<"completed">>, <<"Completed">>, <<"COMPLETED">>}}

\* C18: totalOrders is the number of orders whose status is 'completed'
\* whatever the case of its letters, totalSales the sum of totalAmount over
\* these orders (a missing amount counting 0), averageOrderValue their
\* quotient, and exactly 0 when there is no such order.
CompletedTotals ==
    stats # << >> =>
        LET done == StatedCompleted(stats.orders)
            amounts == [k \in DOMAIN stats.orders |->
                            IF k \in done /\ stats.orders[k].totalAmount # Null
                            THEN stats.orders[k].totalAmount[1] ELSE 0]
            average == averageOrderValue(stats)
        IN  /\ totalOrders(stats) = Cardinality(done)
            /\ totalSales(stats) = SeqSum(amounts)
            /\ average.den # 0
            /\ IF done = {} THEN average.num = 0
               ELSE average.num * Cardinality(done) = SeqSum(amounts) * average.den

\* C18 witness: a 'Completed' order of 1.004 kr and a 'COMPLETED' order of
\* 2.50 kr give 2 orders, 3.504 kr of sales and an average of 1.752 kr.
CompletedTotalsWitness ==
    /\ stats # << >>
    /\ Len(stats.orders) = 2
    /\ stats.orders[1].status = <<"Completed">> /\ stats.orders[1].totalAmount = <<1004>>
    /\ stats.orders[2].status = <<"COMPLETED">> /\ stats.orders[2].totalAmount = <<2500>>
    /\ totalOrders(stats) = 2
    /\ totalSales(stats) = 3504
    /\ averageOrderValue(stats) = [num |-> 3504, den |-> 2]

OneLatestRowPerProduct(list, rows) ==
    /\ \A i, j \in DOMAIN list : list[i].productId = list[j].productId => i = j
    /\ \A i \in DOMAIN list :
        /\ \E k \in DOMAIN rows : rows[k] = list[i]
        /\ \A k \in DOMAIN rows :
            rows[k].productId = list[i].productId
                => rows[k].lastUpdated <= list[i].lastUpdated
    /\ \A k \in DOMAIN rows : \E i \in DOMAIN list : list[i].productId = rows[k].productId

\* C20: the list that a snapshot of the Inventory rows leaves in the order
\* form or in the inventory list holds at most one row per productId, the row
\* being one with the greatest lastUpdated among the rows of the product; the
\* stock that the order form shows and validates against and the row it
\* updates are that row's.
SnapshotCollapsesToLatest ==
    [][\A c \in Clients :
        /\ ord'[c] # ord[c] =>
            /\ OneLatestRowPerProduct(ord'[c].inventoryItems, inventory)
            /\ \A p \in {"p1", "p2"} :
                LET hit == {i \in DOMAIN ord'[c].inventoryItems :
                                ord'[c].inventoryItems[i].productId = p}
                IN  IF hit = {}
                    THEN /\ stockByProductId(ord'[c], p) = 0
                         /\ findInventoryByProductId(ord'[c], p) = << >>
                    ELSE \A i \in hit :
                            /\ stockByProductId(ord'[c], p)
                                    = ord'[c].inventoryItems[i].stockLevel
                            /\ findInventoryByProductId(ord'[c], p)
                                    = <<ord'[c].inventoryItems[i]>>
        /\ invForm'[c] # invForm[c] =>
            OneLatestRowPerProduct(invForm'[c].inventoryItems, inventory)
       ]_vars

\* C20 witness: of three rows of p1 the second is the latest (lastUpdated 2,
\* stock 0); both lists hold it alone, and the order form reads stock 0 where
\* the first and the last row say 2.
SnapshotCollapsesToLatestWitness ==
    /\ Len(inventory) = 3
    /\ \A k \in 1 .. 3 : inventory[k].productId = "p1"
    /\ inventory[1].lastUpdated = 1 /\ inventory[1].stockLevel = 2
    /\ inventory[2].lastUpdated = 2 /\ inventory[2].stockLevel = 0
    /\ inventory[3].lastUpdated = 0 /\ inventory[3].stockLevel = 2
    /\ ord[1].inventoryItems = <<inventory[2]>>
    /\ invForm[1].inventoryItems = <<inventory[2]>>
    /\ stockByProductId(ord[1], "p1") = 0

\* C21: a store call of submitReturn, searchOrder or submitOrder that throws
\* ends the function in the same step, through its catch and finally blocks:
\* the call in flight is gone, formError holds a message, the flag of the
\* function (submitting, searching) is false and nothing was written; a
\* searchOrder that submitReturn awaited ends the submission with it.  A flag
\* is never true without a call of its function in flight.
ExceptionsAreCaught ==
    [][\A c \in Clients :
        /\ (ReturnCreateResp(c, "throw") \/ ReturnItemResp(c, "throw")) =>
            /\ sub'[c].pc = "idle"
            /\ ret'[c].formError # ""
            /\ ~ret'[c].submitting
            /\ ~StoreWritten
        /\ \A j \in DOMAIN search[c] :
            (\/ SearchGetResp(c, j, "throw")
             \/ SearchItemsResp(c, j, "throw")
             \/ SearchReturnsResp(c, j, "throw")
             \/ SearchReturnItemsResp(c, j, "throw")) =>
                /\ Len(search'[c]) = Len(search[c]) - 1
                /\ ret'[c].formError # ""
                /\ ~ret'[c].searching
                /\ search[c][j].caller = "submit" =>
                        sub'[c].pc = "idle" /\ ~ret'[c].submitting
                /\ ~StoreWritten
        /\ ord[c] # << >> =>
            /\ (\/ OrderCreateResp(c, "throw")
                \/ OrderItemResp(c, "throw")
                \/ InvUpdateResp(c, "throw")) =>
                    /\ osub'[c].pc = "idle"
                    /\ ord'[c].formError # << >>
                    /\ ~ord'[c].submitting
                    /\ ~StoreWritten
            /\ ord[c].submitting => osub[c].pc # "idle"
        /\ ret[c].submitting => sub[c].pc # "idle"
        /\ ret[c].searching => search[c] # << >>
       ]_vars

\* C21 witness: the refresh that a successful submitReturn awaited has thrown
\* at one of its reads: the Return and its ReturnItem are stored, nothing is in
\* flight, both flags are false and formError holds the message.
ExceptionsAreCaughtWitness ==
    /\ Len(returns) = 1 /\ Len(returnItems) = 1
    /\ sub[1].pc = "idle" /\ search[1] = << >>
    /\ ret[1].formError = "Network error"
    /\ ~ret[1].submitting /\ ~ret[1].searching
    /\ ~ret[1].orderFound

\* The purchase prices that a row of product p with the greatest lastUpdated
\* among the rows of p holds (none counting 0); 0 when p has no row.
LatestPurchasePrices(rows, p) ==
    LET mine == {k \in DOMAIN rows : rows[k].productId = p}
        latest == {k \in mine : \A j \in mine : rows[j].lastUpdated <= rows[k].lastUpdated}
    IN  IF mine = {} THEN {0}
        ELSE {IF rows[k].purchasePrice = Null THEN 0 ELSE rows[k].purchasePrice[1] :
                k \in latest}

\* C22: totalProfit is the sum, over the order items whose order is completed,
\* of (unitPrice - purchasePrice) * quantity, the purchasePrice of a product
\* being that of a stock row of the product with the greatest lastUpdated, 0
\* without a row or without a price; it is 0 when no order is completed.
ProfitOfCompletedOrders ==
    stats # << >> =>
        LET done == StatedCompleted(stats.orders)
            mine == {k \in DOMAIN stats.orderItems :
                        \E o \in done : stats.orders[o].id = stats.orderItems[k].orderId}
        IN  /\ done = {} => totalProfit(stats) = 0
            /\ \E price \in [{"p1", "p2"} -> {0, 600, 1500}] :
                /\ \A p \in {"p1", "p2"} :
                    price[p] \in LatestPurchasePrices(stats.inventory, p)
                /\ totalProfit(stats) =
                    SeqSum([k \in DOMAIN stats.orderItems |->
                        IF k \in mine
                        THEN (stats.orderItems[k].unitPrice
                                    - price[stats.orderItems[k].productId])
                                * stats.orderItems[k].quantity
                        ELSE 0])

\* C22 witness: o1 is 'Completed' with 2 units of p1 at 1.004 kr, o2 is pending
\* with a unit of p1; of the two rows of p1 the second is the later one and
\* holds 0.60 kr, the first 1.50 kr: the profit is 2 * 0.404 kr.
ProfitOfCompletedOrdersWitness ==
    /\ stats # << >>
    /\ Len(stats.orders) = 2
    /\ stats.orders[1].status = <<"Completed">> /\ stats.orders[2].status = <<"pending">>
    /\ Len(stats.orderItems) = 2
    /\ stats.orderItems[1].orderId = "o1" /\ stats.orderItems[1].quantity = 2
    /\ stats.orderItems[1].productId = "p1"
    /\ stats.orderItems[2].orderId = "o2" /\ stats.orderItems[2].productId = "p1"
    /\ Len(stats.inventory) = 2
    /\ stats.inventory[1].productId = "p1" /\ stats.inventory[1].lastUpdated = 0
    /\ stats.inventory[1].purchasePrice = <<1500>>
    /\ stats.inventory[2].productId = "p1" /\ stats.inventory[2].lastUpdated = 1
    /\ stats.inventory[2].purchasePrice = <<600>>
    /\ totalProfit(stats) = 808

\* The local calendar day, counted from 1970-01-01, and the local hour of the
\* instant t in a zone `offset` milliseconds ahead of UTC.
LocalDayOf(t, offset) == (t + offset) \div DayMs

LocalHourOf(t, offset) == ((t + offset) % DayMs) \div HourMs

\* C23: for a selected day, the bucket of each hour holds the sum of the
\* totalAmount of the completed orders with a non-zero totalAmount whose
\* orderDate lies in that hour of that local day, from 00:00:00.000 to
\* 23:59:59.999, so the 24 buckets add up to the total of that day's completed
\* orders, and no other order adds to a bucket.
DayOrdersBucketedByHour ==
    (stats # << >> /\ stats.selectedDate # << >>) =>
        LET inDay == {k \in StatedCompleted(stats.orders) :
                        /\ stats.orders[k].totalAmount \notin {Null, <<0>>}
                        /\ LocalDayOf(stats.orders[k].orderDate, stats.utcOffset)
                                = stats.selectedDate[1]}
            amountIn(hour) ==
                SeqSum([k \in DOMAIN stats.orders |->
                    IF k \in inDay
                        /\ LocalHourOf(stats.orders[k].orderDate, stats.utcOffset) = hour
                    THEN stats.orders[k].totalAmount[1] ELSE 0])
        IN  /\ \A hour \in 0 .. 23 : salesByHour(stats)[hour] = amountIn(hour)
            /\ SeqSum([i \in 1 .. 24 |-> salesByHour(stats)[i - 1]])
                    = SeqSum([k \in DOMAIN stats.orders |->
                                IF k \in inDay THEN stats.orders[k].totalAmount[1] ELSE 0])

\* The answer of Order.get to call j of client c holds no order.
OrderNotFound(c, j) ==
    /\ search[c][j].pc = "get"
    /\ OrderGet(search[c][j].arg) = << >>
    /\ SearchGetResp(c, j, "ok")

OrdersMatchTheirItems ==
    (\A c \in OrderClients : osub[c].pc = "idle") =>
        \A k \in DOMAIN orders :
            LET items == ItemsOfOrder(orderItems, orders[k].id)
            IN  /\ orders[k].totalAmount = SeqSum([i \in DOMAIN items |-> items[i].subtotal])
                /\ \A i \in DOMAIN items :
                    items[i].subtotal = ToFixed2(items[i].unitPrice * items[i].quantity)

\* C26: a line record is written only by a submission whose header create has
\* stored the header before: the submission keeps the id of that header from
\* the answer of the create on, and each OrderItem or ReturnItem it writes
\* carries that id.  When the header create returns without an id the
\* submission ends in that step with formError set, and writes nothing, then
\* or later.
LinesCarryTheirHeader ==
    [][/\ (\A c \in Clients : sub[c].pc = "idle" /\ (ord[c] = << >> \/ osub[c].pc = "idle"))
            => ~StoreWritten
       /\ \A c \in Clients :
        /\ sub[c].pc = "item" =>
            /\ \E k \in DOMAIN returns : returns[k].id = sub[c].returnId
            /\ sub[c].arg[1].returnId = sub[c].returnId
            /\ sub'[c].pc = "item" => sub'[c].returnId = sub[c].returnId
        /\ (sub[c].pc = "create" /\ sub'[c].pc = "item") =>
            /\ Len(returns') = Len(returns) + 1
            /\ SubSeq(returns', 1, Len(returns)) = returns
            /\ sub'[c].returnId = returns'[Len(returns')].id
            /\ \A k \in DOMAIN returnItems : returnItems[k].returnId # sub'[c].returnId
        /\ (c \in ReturnClients /\ returnItems' # returnItems) =>
            /\ sub[c].pc = "item"
            /\ returnItems' = Append(returnItems, returnItems'[Len(returnItems')])
            /\ returnItems'[Len(returnItems')].returnId = sub[c].returnId
        /\ ReturnCreateResp(c, "nodata") =>
            /\ sub'[c].pc = "idle"
            /\ ret'[c].formError # ""
            /\ ~StoreWritten
        /\ ord[c] # << >> =>
            /\ osub[c].pc \in {"item", "inv"} =>
                /\ \E k \in DOMAIN orders : orders[k].id = osub[c].orderId
                /\ osub'[c].pc \in {"item", "inv"} => osub'[c].orderId = osub[c].orderId
            /\ osub[c].pc = "item" => osub[c].arg[1].orderId = osub[c].orderId
            /\ (osub[c].pc = "order" /\ osub'[c].pc = "item") =>
                /\ Len(orders') = Len(orders) + 1
                /\ SubSeq(orders', 1, Len(orders)) = orders
                /\ osub'[c].orderId = orders'[Len(orders')].id
                /\ \A k \in DOMAIN orderItems : orderItems[k].orderId # osub'[c].orderId
            /\ (c \in OrderClients /\ orderItems' # orderItems) =>
                /\ osub[c].pc = "item"
                /\ orderItems' = Append(orderItems, orderItems'[Len(orderItems')])
                /\ orderItems'[Len(orderItems')].orderId = osub[c].orderId
            /\ (c \in OrderClients /\ inventory' # inventory) => osub[c].pc = "inv"
            /\ OrderCreateResp(c, "nodata") =>
                /\ osub'[c].pc = "idle"
                /\ ord'[c].formError # << >>
                /\ ~StoreWritten
       ]_vars

\* C26 witness: a first order was stored with its OrderItem, which carries its
\* id; the Order.create of a second submission returned no id, and the
\* submission ended with the message, no second OrderItem and the stock as the
\* first order left it.
LinesCarryTheirHeaderWitness ==
    /\ OrderViewShown
    /\ Len(orders) = 1 /\ Len(orderItems) = 1
    /\ orderItems[1].orderId = orders[1].id
    /\ orderItems[1].productId = "p1" /\ orderItems[1].quantity = 1
    /\ osub[1].pc = "idle"
    /\ ord[1].formError = <<"Failed to create order">>
    /\ inventory[1].stockLevel = 1 /\ inventory[2].stockLevel = 1

\* The unitPrice of the stored OrderItem with this id.
UnitPriceOfOrderItem(id) ==
    orderItems[CHOOSE k \in DOMAIN orderItems : orderItems[k].id = id].unitPrice

\* C27: when a submitReturn all of whose creates were stored ends, the
\* totalRefundAmount of its Return is the sum of the refundAmount of its
\* ReturnItems, each refundAmount being the unitPrice of the line times its
\* quantityReturned, rounded to 2 decimals; also when the quantities of the
\* form were changed while the submission was awaiting its store calls.
RefundTotalIsSumOfItems ==
    [][\A c \in ReturnClients :
        SuccessfulSubmitEnds(c) =>
            LET items == ItemsOfReturn(returnItems', sub[c].returnId)
            IN  /\ \A k \in DOMAIN returns' :
                    returns'[k].id = sub[c].returnId =>
                        returns'[k].totalRefundAmount =
                            SeqSum([i \in DOMAIN items |-> items[i].refundAmount])
                /\ \A i \in DOMAIN items :
                    items[i].refundAmount =
                        ToFixed2(UnitPriceOfOrderItem(items[i].orderItemId)
                                    * items[i].quantityReturned)
       ]_vars

\* The quantity of the stored OrderItems of product p, added up.
QuantitySold(p) ==
    SeqSum([k \in DOMAIN orderItems |->
                IF orderItems[k].productId = p THEN orderItems[k].quantity ELSE 0])

\* The stockLevel that the shop opens with for the product of row k.
InitialStockLevel(k) == IF k = 1 THEN 2 ELSE 1

\* C28: with one till and every write succeeding, whenever no submission is in
\* flight the stored stockLevel of each product is its initial stockLevel
\* minus the quantity of all of its stored OrderItems, whether or not the
\* till has received the snapshot that follows its previous order.
StockIsInitialMinusSold ==
    (\A c \in OrderClients : osub[c].pc = "idle") =>
        \A k \in DOMAIN inventory :
            inventory[k].stockLevel
                = InitialStockLevel(k) - QuantitySold(inventory[k].productId)

\* The orderId of the stored OrderItem with this id.
OrderOfOrderItem(id) ==
    orderItems[CHOOSE k \in DOMAIN orderItems : orderItems[k].id = id].orderId

\* C29: whenever no searchOrder is in flight and orderFound is true, every
\* line of the return form is a line of an OrderItem of the selected order,
\* and every stored ReturnItem references an OrderItem of the order that its
\* Return names; also when the input is changed or searchOrder is started
\* again while an earlier searchOrder is awaiting its queries.
LinesBelongToSelectedOrder ==
    /\ \A c \in ReturnClients :
        (search[c] = << >> /\ ret[c].orderFound) =>
            /\ ret[c].selectedOrder # << >>
            /\ \A i \in DOMAIN ret[c].returnLines :
                OrderOfOrderItem(ret[c].returnLines[i].orderItemId)
                    = ret[c].selectedOrder[1].id
    /\ \A k \in DOMAIN returnItems :
        \A r \in DOMAIN returns :
            returns[r].id = returnItems[k].returnId =>
                OrderOfOrderItem(returnItems[k].orderItemId) = returns[r].orderId

\* The step that ends a submitOrder of till c every store call of which
\* succeeded.
SuccessfulOrderEnds(c) ==
    /\ osub[c].pc \in {"item", "inv"}
    /\ osub[c].allOk
    /\ osub'[c].pc = "idle"
    /\ \/ osub[c].pc = "item" /\ OrderItemResp(c, "ok")
       \/ osub[c].pc = "inv" /\ InvUpdateResp(c, "ok")

\* The step that ends a submitReturn of client c every store call of which
\* succeeded: the creates, and the queries of the searchOrder it awaits.
SuccessfulReturnEnds(c) ==
    /\ SuccessfulSubmitEnds(c)
    /\ \/ sub[c].pc = "item" /\ ReturnItemResp(c, "ok")
       \/ /\ sub[c].pc = "refresh"
          /\ \E j \in DOMAIN search[c] :
                /\ search[c][j].caller = "submit"
                /\ \/ search[c][j].pc = "get" /\ SearchGetResp(c, j, "ok")
                   \/ search[c][j].pc = "items" /\ SearchItemsResp(c, j, "ok")
                   \/ search[c][j].pc = "returns" /\ SearchReturnsResp(c, j, "ok")
                   \/ search[c][j].pc = "returnItems" /\ SearchReturnItemsResp(c, j, "ok")

\* C30: when a submitOrder or a submitReturn every store call of which
\* succeeded ends, formSuccess holds the success message and formError is
\* empty, and the order form is one blank line.
SuccessMessageShownAtEnd ==
    [][/\ \A c \in OrderClients :
            (ord[c] # << >> /\ SuccessfulOrderEnds(c)) =>
                /\ ord'[c].formSuccess # << >>
                /\ ord'[c].formError = << >>
                /\ ord'[c].lines = << BlankLine >>
       /\ \A c \in ReturnClients :
            SuccessfulReturnEnds(c) =>
                /\ ret'[c].formSuccess # << >>
                /\ ret'[c].formError = ""
      ]_vars

====
